---------------------------- MODULE Spec2Model ----------------------------
(***************************************************************************)
(* StyleFusion: metadata normalization, drift inference, the resilient     *)
(* remote-call wrapper (generateWithRetry / analyzeImages), identity       *)
(* hydration and the SD/MJ and universal prompt generators.                *)
(*                                                                         *)
(* JavaScript strings are TLA+ strings (Len, SubSeq and \o act on them).   *)
(* JavaScript values that may have any type are tagged records.  Numbers   *)
(* are kept in tenths: Num(5) is 0.5, Num(10) is 1.                        *)
(***************************************************************************)
EXTENDS Integers, Sequences, FiniteSets, TLC

VARIABLES
  raw,            \* normalizer: the parsed JSON handed to normalizeMetadata
  normPc,         \* normalizer: "ready" | "done"
  normImpl,       \* normalizer: which copy of normalizeMetadata ran
  normOut,        \* normalizer: completion of the call
  signalAborted,  \* remote calls: AbortSignal.aborted
  proc,           \* remote calls: the state of each generateWithRetry invocation
  an,             \* analysis: the state of the analyzeImages call
  storedApiKey,   \* analysis: localStorage holds an API key
  category,       \* drift inference: the category argument
  value,          \* drift inference: the value argument
  driftPc,        \* drift inference: "idle", "ready" (before the call), "done"
  driftOut,       \* drift inference: completion of the call
  input,          \* pure calls: the arguments of the call
  callFn,         \* pure calls: the function that was called
  callPc,         \* pure calls: "idle", "ready" (before the call), "done"
  callOut         \* pure calls: completion of the call

normVars == <<raw, normPc, normImpl, normOut>>

remoteVars == <<signalAborted, proc, an, storedApiKey>>

analysisVars == <<an, storedApiKey>>

driftVars == <<category, value, driftPc, driftOut>>

callVars == <<input, callFn, callPc, callOut>>

vars ==
  <<raw, normPc, normImpl, normOut, signalAborted, proc, an, storedApiKey,
    category, value, driftPc, driftOut, input, callFn, callPc, callOut>>

-----------------------------------------------------------------------------
(* JavaScript values *)

Null == [t |-> "null"]
Undefined == [t |-> "undefined"]
Num(n) == [t |-> "number", n |-> n]
Str(s) == [t |-> "string", s |-> s]
Bool(b) == [t |-> "boolean", b |-> b]
Arr(items) == [t |-> "array", items |-> items]
Obj(fields) == [t |-> "object", fields |-> fields]
NoFields == [k \in {} |-> Null]

\* completion of a call: a returned value or a thrown error
Return(v) == [completion |-> "return", value |-> v]
Throw(e) == [completion |-> "throw", error |-> e]
NotCalled == [completion |-> "none"]

\* ToBoolean
Truthy(v) ==
  CASE v.t = "null" -> FALSE
    [] v.t = "undefined" -> FALSE
    [] v.t = "number" -> v.n # 0
    [] v.t = "string" -> v.s # ""
    [] v.t = "boolean" -> v.b
    [] OTHER -> TRUE

\* typeof v === 'object' for a truthy v
IsObjectLike(v) == v.t \in {"object", "array"}

\* v.name for a base that is neither null nor undefined; the names read by
\* the normalizers are own data properties of parsed JSON objects only
Get(v, name) ==
  IF v.t = "object" /\ name \in DOMAIN v.fields THEN v.fields[name] ELSE Undefined

\* (v as Record) || {}
OrEmpty(v) == IF Truthy(v) THEN v ELSE Obj(NoFields)

-----------------------------------------------------------------------------
(* Strings *)

CharAt(s, i) == SubSeq(s, i, i)

\* String.prototype.includes
Includes(s, sub) ==
  \E i \in 1..(Len(s) - Len(sub) + 1) : SubSeq(s, i, i + Len(sub) - 1) = sub

Digit(d) == CharAt("0123456789", d + 1)

RECURSIVE NatToString(_)
NatToString(n) == IF n < 10 THEN Digit(n) ELSE NatToString(n \div 10) \o Digit(n % 10)

\* Number.prototype.toString for a number kept in tenths
NumToString(n) ==
  LET a == IF n < 0 THEN 0 - n ELSE n
      body == NatToString(a \div 10) \o
              (IF a % 10 = 0 THEN "" ELSE "." \o Digit(a % 10))
  IN IF n < 0 THEN "-" \o body ELSE body

RECURSIVE JoinStrings(_, _)
JoinStrings(seq, sep) ==
  IF Len(seq) = 0 THEN ""
  ELSE IF Len(seq) = 1 THEN seq[1]
  ELSE seq[1] \o sep \o JoinStrings(Tail(seq), sep)

\* String(v)
RECURSIVE ToStr(_)
ToStr(v) ==
  CASE v.t = "string" -> v.s
    [] v.t = "number" -> NumToString(v.n)
    [] v.t = "boolean" -> IF v.b THEN "true" ELSE "false"
    [] v.t = "null" -> "null"
    [] v.t = "undefined" -> "undefined"
    [] v.t = "array" ->
         JoinStrings([i \in 1..Len(v.items) |->
                        IF v.items[i].t \in {"null", "undefined"} THEN ""
                        ELSE ToStr(v.items[i])], ",")
    [] OTHER -> "[object Object]"

IsDigit(c) == Len(c) = 1 /\ Includes("0123456789", c)
DigitValue(c) == CHOOSE d \in 0..9 : Digit(d) = c
WhiteSpace == {" ", "\t", "\n", "\r"}

RECURSIVE SkipWhiteSpace(_)
SkipWhiteSpace(s) ==
  IF Len(s) > 0 /\ CharAt(s, 1) \in WhiteSpace THEN SkipWhiteSpace(Tail(s)) ELSE s

\* number of leading decimal digits of s
RECURSIVE DigitRun(_)
DigitRun(s) == IF Len(s) > 0 /\ IsDigit(CharAt(s, 1)) THEN 1 + DigitRun(Tail(s)) ELSE 0

RECURSIVE DigitsValue(_)
DigitsValue(s) ==
  IF Len(s) = 0 THEN 0
  ELSE 10 * DigitsValue(SubSeq(s, 1, Len(s) - 1)) + DigitValue(CharAt(s, Len(s)))

NaN == [nan |-> TRUE, n |-> 0]
Finite(n) == [nan |-> FALSE, n |-> n]
\* Infinity (sign 1) and -Infinity (sign -1)
Infinite(sign) == [nan |-> FALSE, n |-> 0, inf |-> sign]
IsInfinite(num) == "inf" \in DOMAIN num

\* parseFloat: leading white space, a sign, then Infinity or digits and a
\* fraction; the longest such prefix is the number, in tenths (fraction digits
\* after the first are below the resolution kept here; exponents are not read)
ParseFraction(int, k, rest) ==
  IF Len(rest) > 1 /\ CharAt(rest, 1) = "." /\ IsDigit(CharAt(rest, 2))
  THEN Finite(10 * int + DigitValue(CharAt(rest, 2)))
  ELSE IF k = 0 THEN NaN ELSE Finite(10 * int)

ParseDigits(s, k) ==
  ParseFraction(DigitsValue(SubSeq(s, 1, k)), k, SubSeq(s, k + 1, Len(s)))

ParseUnsigned(s) ==
  IF Len(s) >= 8 /\ SubSeq(s, 1, 8) = "Infinity" THEN Infinite(1)
  ELSE ParseDigits(s, DigitRun(s))

Negate(num) ==
  IF num.nan THEN NaN
  ELSE IF IsInfinite(num) THEN Infinite(0 - num.inf)
  ELSE Finite(0 - num.n)

ParseSigned(s) ==
  IF Len(s) > 0 /\ CharAt(s, 1) = "-" THEN Negate(ParseUnsigned(Tail(s)))
  ELSE IF Len(s) > 0 /\ CharAt(s, 1) = "+" THEN ParseUnsigned(Tail(s))
  ELSE ParseUnsigned(s)

parseFloat(str) == ParseSigned(SkipWhiteSpace(str))

-----------------------------------------------------------------------------
(* utils/metadataNormalizers.ts *)

\* mutant: a non-string value comes back as its string representation
normalizeStringCoerces(val) ==
  IF val.t \in {"null", "undefined"} \/ val = Str("None") \/ val = Str("none")
  THEN ""
  ELSE ToStr(val)

normalizeString(val) ==
  IF val.t \in {"null", "undefined"} \/ val = Str("None") \/ val = Str("none")
  THEN ""
  ELSE IF val.t = "string" THEN val.s ELSE ""

\* filter, then map: the surviving items in their order, each as a string
RECURSIVE normalizeItems(_)
normalizeItems(items) ==
  IF Len(items) = 0 THEN <<>>
  ELSE LET item == Head(items)
           keep == item # Null /\ item # Str("None") /\ item # Str("none")
       IN (IF keep THEN <<(IF item.t = "string" THEN item.s ELSE ToStr(item))>>
           ELSE <<>>) \o normalizeItems(Tail(items))

normalizeArray(val) ==
  IF val.t = "array" THEN normalizeItems(val.items) ELSE <<>>

normalizeIdentityColor(val) ==
  IF Truthy(val) /\ IsObjectLike(val)
  THEN [description |-> normalizeString(Get(val, "description")),
        hex |-> normalizeString(Get(val, "hex"))]
  ELSE [description |-> "", hex |-> ""]

\* mutant: the face geometry is returned even when every field is empty
normalizeFaceGeometryAlways(val) ==
  IF ~Truthy(val) \/ ~IsObjectLike(val) THEN Undefined
  ELSE [faceShape |-> normalizeString(Get(val, "faceShape")),
        eyeShape |-> normalizeString(Get(val, "eyeShape")),
        browStyle |-> normalizeString(Get(val, "browStyle")),
        noseShape |-> normalizeString(Get(val, "noseShape")),
        lipShape |-> normalizeString(Get(val, "lipShape"))]

normalizeFaceGeometry(val) ==
  IF ~Truthy(val) \/ ~IsObjectLike(val) THEN Undefined
  ELSE LET result == [faceShape |-> normalizeString(Get(val, "faceShape")),
                      eyeShape |-> normalizeString(Get(val, "eyeShape")),
                      browStyle |-> normalizeString(Get(val, "browStyle")),
                      noseShape |-> normalizeString(Get(val, "noseShape")),
                      lipShape |-> normalizeString(Get(val, "lipShape"))]
           hasData == \E k \in DOMAIN result : result[k] # ""
       IN IF hasData THEN result ELSE Undefined

normalizeHairSpecifics(val) ==
  IF ~Truthy(val) \/ ~IsObjectLike(val) THEN Undefined
  ELSE LET result == [hairLength |-> normalizeString(Get(val, "hairLength")),
                      hairWave |-> normalizeString(Get(val, "hairWave")),
                      hairPart |-> normalizeString(Get(val, "hairPart"))]
           hasData == \E k \in DOMAIN result : result[k] # ""
       IN IF hasData THEN result ELSE Undefined

\* mutant: Math.max(0, num), without the upper bound
clampWithoutUpperBound(n) ==
  LET num == IF n.t = "number" THEN Finite(n.n) ELSE parseFloat(ToStr(n))
  IN IF num.nan THEN 0
     ELSE IF IsInfinite(num) THEN (IF num.inf > 0 THEN 1000 ELSE 0)
     ELSE IF num.n > 0 THEN num.n ELSE 0

\* the clamp helper of normalizeConfidence, in tenths
clamp(n) ==
  LET num == IF n.t = "number" THEN Finite(n.n) ELSE parseFloat(ToStr(n))
  IN IF num.nan THEN 0
     ELSE IF IsInfinite(num) THEN (IF num.inf > 0 THEN 10 ELSE 0)
     ELSE LET lo == IF num.n < 10 THEN num.n ELSE 10
          IN IF lo > 0 THEN lo ELSE 0

normalizeConfidence(val) ==
  IF ~Truthy(val) \/ ~IsObjectLike(val) THEN Undefined
  ELSE LET result == [overall |-> clamp(Get(val, "overall")),
                      primaryColor |-> clamp(Get(val, "primaryColor")),
                      secondaryColor |-> clamp(Get(val, "secondaryColor")),
                      accentColor |-> clamp(Get(val, "accentColor")),
                      faceGeometry |-> clamp(Get(val, "faceGeometry")),
                      hairSpecifics |-> clamp(Get(val, "hairSpecifics"))]
       IN IF result.overall > 0 THEN result ELSE Undefined

\* the record r with key k set to v
WithKey(r, k, v) == [x \in DOMAIN r \cup {k} |-> IF x = k THEN v ELSE r[x]]

\* the record r with the optional key k present only when the record v is defined
WithOptional(r, k, v) == IF v = Undefined THEN r ELSE WithKey(r, k, v)

normalizeIdentity(val) ==
  IF ~Truthy(val) \/ ~IsObjectLike(val) THEN Undefined
  ELSE LET primaryColor == normalizeIdentityColor(Get(val, "primaryColor"))
           fixedSeed == normalizeString(Get(val, "fixedSeed"))
           identity == [primaryColor |-> primaryColor,
                        secondaryColor |-> normalizeIdentityColor(Get(val, "secondaryColor")),
                        accentColor |-> normalizeIdentityColor(Get(val, "accentColor")),
                        texture |-> normalizeString(Get(val, "texture")),
                        structure |-> normalizeString(Get(val, "structure")),
                        distinguishingFeatures |->
                          normalizeArray(Get(val, "distinguishingFeatures")),
                        estimatedAge |-> normalizeString(Get(val, "estimatedAge")),
                        species |-> normalizeString(Get(val, "species")),
                        fixedSeed |-> fixedSeed]
           faceGeometry == normalizeFaceGeometry(Get(val, "faceGeometry"))
           hairSpecifics == normalizeHairSpecifics(Get(val, "hairSpecifics"))
           identityNegatives == normalizeArray(Get(val, "identityNegatives"))
           confidence == normalizeConfidence(Get(val, "confidence"))
           withFace == WithOptional(identity, "faceGeometry", faceGeometry)
           withHair == WithOptional(withFace, "hairSpecifics", hairSpecifics)
           withNegs == IF Len(identityNegatives) > 0
                       THEN WithKey(withHair, "identityNegatives", identityNegatives)
                       ELSE withHair
       IN IF primaryColor.description = "" /\ fixedSeed = "" THEN Undefined
          ELSE WithOptional(withNegs, "confidence", confidence)

\* the sections both copies of normalizeMetadata build from an object-like
\* or primitive (never null or undefined) base
normalizedSections(data) ==
  LET meta == OrEmpty(Get(data, "meta"))
      subject == OrEmpty(Get(data, "subject"))
      scene == OrEmpty(Get(data, "scene"))
      technical == OrEmpty(Get(data, "technical"))
      palette == OrEmpty(Get(data, "palette"))
      details == OrEmpty(Get(data, "details"))
      textContent == OrEmpty(Get(data, "text_content"))
  IN [meta |-> [intent |-> normalizeString(Get(meta, "intent")),
                aspect_ratio |-> normalizeString(Get(meta, "aspect_ratio")),
                quality |-> normalizeString(Get(meta, "quality"))],
      subject |-> WithOptional(
                    [archetype |-> normalizeString(Get(subject, "archetype")),
                     description |-> normalizeString(Get(subject, "description")),
                     expression |-> normalizeString(Get(subject, "expression")),
                     pose |-> normalizeString(Get(subject, "pose")),
                     attire |-> normalizeString(Get(subject, "attire"))],
                    "identity", normalizeIdentity(Get(subject, "identity"))),
      scene |-> [setting |-> normalizeString(Get(scene, "setting")),
                 atmosphere |-> normalizeString(Get(scene, "atmosphere")),
                 elements |-> normalizeArray(Get(scene, "elements"))],
      technical |-> [shot |-> normalizeString(Get(technical, "shot")),
                     lens |-> normalizeString(Get(technical, "lens")),
                     lighting |-> normalizeString(Get(technical, "lighting")),
                     render |-> normalizeString(Get(technical, "render"))],
      palette |-> [colors |-> normalizeArray(Get(palette, "colors")),
                   mood |-> normalizeString(Get(palette, "mood"))],
      details |-> [textures |-> normalizeArray(Get(details, "textures")),
                   accents |-> normalizeArray(Get(details, "accents"))],
      negative |-> normalizeString(Get(data, "negative")),
      text_content |-> [overlay |-> normalizeString(Get(textContent, "overlay")),
                        style |-> normalizeString(Get(textContent, "style"))]]

TypeError == [name |-> "TypeError", message |-> "Cannot read properties of null or undefined"]

\* utils/metadataNormalizers.ts: raw.meta is read without a guard on raw
normalizeMetadata(r) ==
  IF r.t \in {"null", "undefined"} THEN Throw(TypeError)
  ELSE Return(normalizedSections(r))

DEFAULT_METADATA ==
  [meta |-> [intent |-> "", aspect_ratio |-> "", quality |-> ""],
   subject |-> [archetype |-> "", description |-> "", expression |-> "",
                pose |-> "", attire |-> ""],
   scene |-> [setting |-> "", atmosphere |-> "", elements |-> <<>>],
   technical |-> [shot |-> "", lens |-> "", lighting |-> "", render |-> ""],
   palette |-> [colors |-> <<>>, mood |-> ""],
   details |-> [textures |-> <<>>, accents |-> <<>>],
   style_fusion |-> [sources |-> "", blend_notes |-> ""],
   negative |-> "",
   text_content |-> [overlay |-> "", style |-> ""]]

\* the second copy (with the style_fusion section): non-objects get the defaults
normalizeMetadataGuarded(r) ==
  IF ~Truthy(r) \/ r.t \notin {"object", "array"} THEN Return(DEFAULT_METADATA)
  ELSE LET styleFusion == OrEmpty(Get(r, "style_fusion"))
           base == normalizedSections(r)
       IN Return([k \in DOMAIN base \cup {"style_fusion"} |->
                    IF k = "style_fusion"
                    THEN [sources |-> normalizeString(Get(styleFusion, "sources")),
                          blend_notes |-> normalizeString(Get(styleFusion, "blend_notes"))]
                    ELSE base[k]])

-----------------------------------------------------------------------------
(* services/geminiService.ts: errors and their classification *)

LowerAlphabet == "abcdefghijklmnopqrstuvwxyz"
UpperAlphabet == "ABCDEFGHIJKLMNOPQRSTUVWXYZ"

UpperChars == {CharAt(UpperAlphabet, i) : i \in 1..26}

LowerOf ==
  [c \in UpperChars |-> CharAt(LowerAlphabet, CHOOSE i \in 1..26 : CharAt(UpperAlphabet, i) = c)]

LowerChar(c) == IF c \in UpperChars THEN LowerOf[c] ELSE c

\* String.prototype.toLowerCase
RECURSIVE ToLowerCase(_)
ToLowerCase(s) ==
  IF Len(s) = 0 THEN ""
  ELSE IF Len(s) = 1 THEN LowerChar(s)
  ELSE ToLowerCase(SubSeq(s, 1, Len(s) \div 2))
         \o ToLowerCase(SubSeq(s, Len(s) \div 2 + 1, Len(s)))

\* \w of a regular expression
IsWordChar(c) ==
  Len(c) = 1 /\ (Includes(LowerAlphabet, c) \/ Includes(UpperAlphabet, c)
                   \/ Includes("0123456789_", c))

Err(msg) == [name |-> "Error", message |-> msg]
\* new DOMException('Generation cancelled by user', 'AbortError')
AbortError == [name |-> "AbortError", message |-> "Generation cancelled by user"]
\* lastError = null
NullError == [name |-> "null", message |-> ""]

RETRY_CONFIG_maxRetries == 3
RETRYABLE_STATUS_CODES == {429, 500, 502, 503, 504}

\* the tests of isRetryableError on the lowercased message
HasRetryableMark(message) ==
  \/ \E code \in RETRYABLE_STATUS_CODES :
       \/ Includes(message, NatToString(code))
       \/ Includes(message, "status " \o NatToString(code))
  \/ \E pattern \in {"service unavailable", "overloaded", "rate limit",
                     "too many requests", "network", "econnreset", "etimedout",
                     "temporarily unavailable"} :
       Includes(message, pattern)

isRetryableError(error) == HasRetryableMark(ToLowerCase(error.message))

\* /\b([4-5]\d{2})\b/ matches at position i of m
StatusAt(m, i) ==
  /\ i + 2 <= Len(m)
  /\ CharAt(m, i) \in {"4", "5"}
  /\ IsDigit(CharAt(m, i + 1))
  /\ IsDigit(CharAt(m, i + 2))
  /\ (i = 1 \/ ~IsWordChar(CharAt(m, i - 1)))
  /\ (i + 2 = Len(m) \/ ~IsWordChar(CharAt(m, i + 3)))

FirstStatusAt(m) ==
  CHOOSE i \in 1..Len(m) : StatusAt(m, i) /\ \A j \in 1..(i - 1) : ~StatusAt(m, j)

\* the status code in the message, 0 for null
extractStatusCode(error) ==
  IF \E i \in 1..Len(error.message) : StatusAt(error.message, i)
  THEN DigitsValue(SubSeq(error.message, FirstStatusAt(error.message),
                          FirstStatusAt(error.message) + 2))
  ELSE 0

UNAVAILABLE_MESSAGE ==
  "The AI service is temporarily unavailable (503). This usually resolves within a few minutes. Please try again shortly."
RATE_LIMIT_MESSAGE == "Rate limit exceeded. Please wait a moment before trying again."
EMPTY_RESPONSE_MESSAGE ==
  "The AI service returned an empty response after multiple attempts. Please try again or use different images."

-----------------------------------------------------------------------------
(* generateWithRetry: the steps between two awaits are one step here *)

\* what model.generateContent (inside withTimeout) settles with
Response(text, blockReason, finishReason) ==
  [kind |-> "response", text |-> text, blockReason |-> blockReason,
   finishReason |-> finishReason, name |-> "", message |-> ""]
Failure(name, message) ==
  [kind |-> "error", text |-> "", blockReason |-> "", finishReason |-> "",
   name |-> name, message |-> message]
NoOutcome == [kind |-> "none", text |-> "", blockReason |-> "", finishReason |-> "",
              name |-> "", message |-> ""]

\* an invocation that has not started
Idle ==
  [pc |-> "idle", attempt |-> 0, maxRetries |-> 0, lastError |-> NullError,
   calls |-> 0, backoffs |-> 0, lateDelay |-> FALSE, last |-> NoOutcome,
   result |-> NotCalled]

\* checkAborted(signal)
checkAborted(aborted) == IF aborted THEN Throw(AbortError) ELSE Return(Undefined)

Throws(c) == c.completion = "throw"

Rejected(st, err) == [st EXCEPT !.pc = "rejected", !.result = Throw(err)]
Resolved(st, text) == [st EXCEPT !.pc = "resolved", !.result = Return(text)]

\* after the loop: the categorized error chosen by the status code of lastError
Exhausted(st) ==
  Rejected(st,
    Err(IF st.lastError # NullError /\ extractStatusCode(st.lastError) = 503
        THEN UNAVAILABLE_MESSAGE
        ELSE IF st.lastError # NullError /\ extractStatusCode(st.lastError) = 429
        THEN RATE_LIMIT_MESSAGE
        ELSE EMPTY_RESPONSE_MESSAGE))

\* the try block up to the await of the provider call
TryBlock(st, aborted) ==
  IF Throws(checkAborted(aborted)) THEN Rejected(st, checkAborted(aborted).error)
  ELSE [st EXCEPT !.pc = "inflight", !.calls = @ + 1]

\* a loop that runs one iteration too many
LoopHeadOneMore(st, aborted) ==
  IF st.attempt > st.maxRetries + 1 THEN Exhausted(st)
  ELSE IF Throws(checkAborted(aborted)) THEN Rejected(st, checkAborted(aborted).error)
  ELSE IF st.attempt > 0 THEN [st EXCEPT !.pc = "backoff", !.backoffs = @ + 1]
  ELSE TryBlock(st, aborted)

\* the loop test and the head of the body, up to the first await
LoopHead(st, aborted) ==
  IF st.attempt > st.maxRetries THEN Exhausted(st)
  ELSE IF Throws(checkAborted(aborted)) THEN Rejected(st, checkAborted(aborted).error)
  ELSE IF st.attempt > 0 THEN [st EXCEPT !.pc = "backoff", !.backoffs = @ + 1]
  ELSE TryBlock(st, aborted)

NextAttempt(st, err, aborted) ==
  LoopHead([st EXCEPT !.lastError = err, !.attempt = @ + 1], aborted)

\* a catch block that retries whatever was thrown
CatchRetriesAll(st, err, aborted) ==
  IF st.attempt >= st.maxRetries THEN Rejected(st, err)
  ELSE NextAttempt(st, err, aborted)

\* the catch block
Catch(st, err, aborted) ==
  IF err.name = "AbortError" THEN Rejected(st, err)
  ELSE IF ~(err.name = "TimeoutError" \/ isRetryableError(err))
            \/ st.attempt >= st.maxRetries
  THEN Rejected(st, err)
  ELSE NextAttempt(st, err, aborted)

\* the try block after the provider call resolved
OnResponse(st, o, aborted) ==
  IF Throws(checkAborted(aborted)) THEN Catch(st, checkAborted(aborted).error, aborted)
  ELSE IF o.text # "" THEN Resolved(st, o.text)
  ELSE IF o.blockReason # ""
  THEN Catch(st, Err("Response blocked: " \o o.blockReason), aborted)
  ELSE IF o.finishReason \notin {"", "STOP"}
  THEN Catch(st, Err("Generation stopped: " \o o.finishReason), aborted)
  ELSE NextAttempt(st, Err("Empty response received"), aborted)

OnSettled(st, o, aborted) ==
  IF o.kind = "error"
  THEN Catch(st, [name |-> o.name, message |-> o.message], aborted)
  ELSE OnResponse(st, o, aborted)

\* the call of generateWithRetry, up to its first await
generateWithRetry(maxRetries, aborted) ==
  LoopHead([Idle EXCEPT !.maxRetries = maxRetries], aborted)

-----------------------------------------------------------------------------
(* Inputs of the normalizer: what JSON.parse can hand to normalizeMetadata *)

\* the object obj with property name set to v
With(obj, name, v) ==
  Obj([k \in DOMAIN obj.fields \cup {name} |-> IF k = name THEN v ELSE obj.fields[k]])

\* the object obj without property name
Without(obj, name) ==
  Obj([k \in DOMAIN obj.fields \ {name} |-> obj.fields[k]])

ValidIdentity ==
  Obj([primaryColor |-> Obj([description |-> Str("violet"), hex |-> Str("#8A2BE2")]),
       secondaryColor |-> Obj([description |-> Str("porcelain"), hex |-> Str("#FFE4C4")]),
       accentColor |-> Obj([description |-> Str("platinum"), hex |-> Str("#E5E4E2")]),
       texture |-> Str("silky"),
       structure |-> Str("petite"),
       distinguishingFeatures |-> Arr(<<Str("scar"), Num(10), Null>>),
       estimatedAge |-> Str("mid-20s"),
       species |-> Str("human"),
       fixedSeed |-> Str("moonlit wanderer"),
       faceGeometry |-> Obj([faceShape |-> Str("oval"), eyeShape |-> Str("almond"),
                             browStyle |-> Str("None"), noseShape |-> Null,
                             lipShape |-> Str("full")]),
       hairSpecifics |-> Obj([hairLength |-> Str("waist"), hairWave |-> Str("wavy"),
                              hairPart |-> Str("none")]),
       identityNegatives |-> Arr(<<Str("freckles"), Str("none")>>),
       confidence |-> Obj([overall |-> Num(9), primaryColor |-> Num(15),
                           secondaryColor |-> Num(-5), accentColor |-> Str("0.5"),
                           faceGeometry |-> Str("high"), hairSpecifics |-> Null])])

ValidSubject ==
  Obj([archetype |-> Str("mysterious wanderer"), description |-> Str("brave"),
       expression |-> Str("None"), pose |-> Str("standing"), attire |-> Null,
       identity |-> ValidIdentity])

ValidRaw ==
  Obj([meta |-> Obj([intent |-> Str("test"), aspect_ratio |-> Str("16:9"),
                     quality |-> Str("high")]),
       subject |-> ValidSubject,
       scene |-> Obj([setting |-> Str("battlefield"), atmosphere |-> Str("none"),
                      elements |-> Arr(<<Str("smoke"), Str("None"), Str("fire")>>)]),
       technical |-> Obj([shot |-> Str("wide"), lens |-> Str("24mm"),
                          lighting |-> Num(10), render |-> Str("cinematic")]),
       palette |-> Obj([colors |-> Arr(<<Str("#8B4513"), Str("#FFD700")>>),
                        mood |-> Str("warm")]),
       details |-> Obj([textures |-> Arr(<<Str("metal"), Num(25)>>),
                        accents |-> Str("not-an-array")]),
       negative |-> Str("blurry, low quality"),
       text_content |-> Obj([overlay |-> Str("TITLE"), style |-> Bool(TRUE)])])

\* values of the wrong type, or sentinels, where an object or a string is expected
WrongValues ==
  {Null, Str("None"), Str(""), Str("text"), Num(0), Num(5), Bool(TRUE), Bool(FALSE),
   Arr(<<>>), Arr(<<Str("a"), Null, Num(15)>>), Obj(NoFields)}

NonObjectRaws ==
  {Null, Undefined, Num(0), Num(10), Num(-5), Str(""), Str("None"), Str("text"),
   Bool(TRUE), Bool(FALSE)}

SectionNames ==
  {"meta", "subject", "scene", "technical", "palette", "details", "negative",
   "text_content"}

IdentityVariants ==
  {With(ValidIdentity, f, w) : f \in DOMAIN ValidIdentity.fields, w \in WrongValues}
    \cup {Without(ValidIdentity, f) : f \in DOMAIN ValidIdentity.fields}

\* identities whose nested objects hold nothing but sentinels, or whose
\* confidence has an overall score that is not a number above 0
HollowIdentities ==
  {With(With(ValidIdentity, "primaryColor",
             Obj([description |-> Str("None"), hex |-> Str("#000000")])),
        "fixedSeed", w) : w \in {Str(""), Str("none"), Null, Num(10)}}
    \cup {With(Without(ValidIdentity, "primaryColor"), "fixedSeed", Str("None")),
          With(ValidIdentity, "faceGeometry",
               Obj([faceShape |-> Str("None"), eyeShape |-> Null, browStyle |-> Str(""),
                    noseShape |-> Num(10), lipShape |-> Str("none")])),
          With(ValidIdentity, "hairSpecifics",
               Obj([hairLength |-> Str("none"), hairWave |-> Null,
                    hairPart |-> Str("None")])),
          With(ValidIdentity, "hairSpecifics", Obj([hairPart |-> Str("left")]))}
    \cup {With(ValidIdentity, "confidence",
               With(ValidIdentity.fields.confidence, "overall", w)) :
            w \in {Num(0), Num(-5), Num(1), Num(10), Num(15), Str("0"), Str("0.7"),
                   Str("-1"), Str("abc"), Null, Bool(TRUE)}}

ObjectRaws ==
  {ValidRaw, Obj(NoFields), Arr(<<>>), Arr(<<ValidRaw>>)}
    \cup {With(ValidRaw, "subject", With(ValidSubject, "identity", i)) :
            i \in HollowIdentities}
    \cup {With(ValidRaw, sec, w) : sec \in SectionNames, w \in WrongValues}
    \cup {Without(ValidRaw, sec) : sec \in SectionNames}
    \cup {With(ValidRaw, "subject", With(ValidSubject, "identity", i)) :
            i \in IdentityVariants \cup WrongValues}

RawInputs == NonObjectRaws \cup ObjectRaws

-----------------------------------------------------------------------------
(* The parts of the state a specification leaves alone *)

ProcIds == {"solo", "json", "desc", "correction", "mj"}

\* analyzeImages has not been called
AnalysisIdle ==
  [pc |-> "idle", provided |-> FALSE, currentText |-> "", attempt |-> 0,
   json |-> NotCalled, jsonResult |-> NotCalled, descResult |-> NotCalled,
   mj |-> NotCalled, result |-> NotCalled]

RemoteIdle ==
  /\ signalAborted = FALSE
  /\ proc = [p \in ProcIds |-> Idle]
  /\ an = AnalysisIdle
  /\ storedApiKey = TRUE

DriftIdle ==
  /\ category = ""
  /\ value = ""
  /\ driftPc = "idle"
  /\ driftOut = NotCalled

NormIdle ==
  /\ raw = Undefined
  /\ normPc = "idle"
  /\ normImpl = "none"
  /\ normOut = NotCalled

CallIdle ==
  /\ input = [none |-> Undefined]
  /\ callFn = ""
  /\ callPc = "idle"
  /\ callOut = NotCalled

-----------------------------------------------------------------------------
(* The normalizer as a state machine: one call on one input *)

NormInit ==
  /\ raw \in RawInputs
  /\ normPc = "ready"
  /\ normImpl = "none"
  /\ normOut = NotCalled
  /\ RemoteIdle
  /\ DriftIdle
  /\ CallIdle

\* utils/metadataNormalizers.ts normalizeMetadata(raw)
NormalizeMetadata ==
  /\ normPc = "ready"
  /\ normOut' = normalizeMetadata(raw)
  /\ normImpl' = "utils/metadataNormalizers.ts"
  /\ normPc' = "done"
  /\ UNCHANGED <<raw, remoteVars, driftVars, callVars>>

\* the copy that guards non-object input
NormalizeMetadataGuarded ==
  /\ normPc = "ready"
  /\ normOut' = normalizeMetadataGuarded(raw)
  /\ normImpl' = "guarded"
  /\ normPc' = "done"
  /\ UNCHANGED <<raw, remoteVars, driftVars, callVars>>

NormNext == NormalizeMetadata \/ NormalizeMetadataGuarded

SpecNorm == NormInit /\ [][NormNext]_vars

-----------------------------------------------------------------------------
(* Shape of an ImageMetadata record (types.ts) *)

IsStringArray(a) == \A i \in 1..Len(a) : a[i] \in STRING

\* every section is present, every string field is a string and every array
\* field is an array of strings
IsCompleteMetadata(m) ==
  /\ {"meta", "subject", "scene", "technical", "palette", "details", "negative",
      "text_content"} \subseteq DOMAIN m
  /\ \A k \in {"intent", "aspect_ratio", "quality"} :
       k \in DOMAIN m.meta /\ m.meta[k] \in STRING
  /\ \A k \in {"archetype", "description", "expression", "pose", "attire"} :
       k \in DOMAIN m.subject /\ m.subject[k] \in STRING
  /\ \A k \in {"setting", "atmosphere"} : k \in DOMAIN m.scene /\ m.scene[k] \in STRING
  /\ "elements" \in DOMAIN m.scene /\ IsStringArray(m.scene.elements)
  /\ \A k \in {"shot", "lens", "lighting", "render"} :
       k \in DOMAIN m.technical /\ m.technical[k] \in STRING
  /\ "colors" \in DOMAIN m.palette /\ IsStringArray(m.palette.colors)
  /\ "mood" \in DOMAIN m.palette /\ m.palette.mood \in STRING
  /\ \A k \in {"textures", "accents"} :
       k \in DOMAIN m.details /\ IsStringArray(m.details[k])
  /\ m.negative \in STRING
  /\ \A k \in {"overlay", "style"} :
       k \in DOMAIN m.text_content /\ m.text_content[k] \in STRING

\* every string field is "" and every array field is []
IsAllEmptyMetadata(m) ==
  /\ IsCompleteMetadata(m)
  /\ \A k \in {"intent", "aspect_ratio", "quality"} : m.meta[k] = ""
  /\ \A k \in {"archetype", "description", "expression", "pose", "attire"} :
       m.subject[k] = ""
  /\ "identity" \notin DOMAIN m.subject
  /\ m.scene.setting = "" /\ m.scene.atmosphere = "" /\ m.scene.elements = <<>>
  /\ \A k \in {"shot", "lens", "lighting", "render"} : m.technical[k] = ""
  /\ m.palette.colors = <<>> /\ m.palette.mood = ""
  /\ m.details.textures = <<>> /\ m.details.accents = <<>>
  /\ m.negative = ""
  /\ m.text_content.overlay = "" /\ m.text_content.style = ""

\* C1: normalizeMetadata(raw) never throws: it returns an all-empty record for
\* every non-object raw value (null, undefined, number, string, boolean) and a
\* complete record for every object input.
C1_NormalizeMetadataNeverThrows ==
  normPc = "done" =>
    /\ normOut.completion = "return"
    /\ IsCompleteMetadata(normOut.value)
    /\ raw.t \notin {"object", "array"} => IsAllEmptyMetadata(normOut.value)

-----------------------------------------------------------------------------
(* generateWithRetry as a state machine: one invocation, the provider and the
   user's cancel button as its environment *)

MaxRetriesArg == 3

TIMEOUT_MESSAGE ==
  "Request timed out after 180 seconds during content generation. This may indicate network issues or the API is overloaded. Please try again with smaller images or fewer images."

\* what the provider call can settle with
ProviderResponses ==
  { Response("{\"meta\":{}}", "", "STOP"),
    Response("partial text", "", "MAX_TOKENS"),
    Response("", "", ""),
    Response("", "", "STOP"),
    Response("", "SAFETY", ""),
    Response("", "", "MAX_TOKENS"),
    Response("", "", "SAFETY") }

ProviderFailures ==
  { Failure("Error", "[GoogleGenerativeAI Error]: [503 Service Unavailable] The model is overloaded."),
    Failure("Error", "[GoogleGenerativeAI Error]: [429 Too Many Requests] Resource has been exhausted"),
    Failure("Error", "[GoogleGenerativeAI Error]: [500 Internal Server Error]"),
    Failure("Error", "[GoogleGenerativeAI Error]: [400 Bad Request] API key not valid"),
    Failure("TypeError", "Failed to fetch"),
    Failure("TypeError", "NetworkError when attempting to fetch resource."),
    Failure("Error", "Input of 15000 tokens is too long"),
    Failure("TimeoutError", TIMEOUT_MESSAGE) }

\* fetch rejects with this once its signal is aborted
FetchAborted == Failure("AbortError", "signal is aborted without reason")

ProviderOutcomes(aborted) ==
  ProviderResponses \cup ProviderFailures \cup (IF aborted THEN {FetchAborted} ELSE {})

\* await delay(backoffDelay) returns: the timer is not tied to the signal
AfterDelay(st, aborted) ==
  TryBlock([st EXCEPT !.lateDelay = @ \/ aborted], aborted)

RetryInit ==
  /\ NormIdle
  /\ RemoteIdle
  /\ DriftIdle
  /\ CallIdle

RetryStart ==
  /\ proc["solo"].pc = "idle"
  /\ \E n \in 0..MaxRetriesArg :
       proc' = [proc EXCEPT !["solo"] = generateWithRetry(n, signalAborted)]
  /\ UNCHANGED <<normVars, callVars, driftVars, signalAborted, analysisVars>>

RetryDelayElapsed ==
  /\ proc["solo"].pc = "backoff"
  /\ proc' = [proc EXCEPT !["solo"] = AfterDelay(@, signalAborted)]
  /\ UNCHANGED <<normVars, callVars, driftVars, signalAborted, analysisVars>>

RetrySettle ==
  /\ proc["solo"].pc = "inflight"
  /\ \E o \in ProviderOutcomes(signalAborted) :
       proc' = [proc EXCEPT !["solo"] =
                  OnSettled([@ EXCEPT !.last = o], o, signalAborted)]
  /\ UNCHANGED <<normVars, callVars, driftVars, signalAborted, analysisVars>>

\* the user cancels
Abort ==
  /\ ~signalAborted
  /\ signalAborted' = TRUE
  /\ UNCHANGED <<normVars, callVars, driftVars, proc, analysisVars>>

RetryNext == RetryStart \/ RetryDelayElapsed \/ RetrySettle \/ Abort

SpecRetry == RetryInit /\ [][RetryNext]_vars

-----------------------------------------------------------------------------
(* Claims about generateWithRetry *)

solo == proc["solo"]

\* the failure is transient: its message carries one of the listed status
\* codes or a network/overload pattern, or it is a TimeoutError
MentionsTransientCause(lowered) ==
  \E mark \in {"429", "500", "502", "503", "504", "service unavailable",
                "overloaded", "rate limit", "too many requests", "network",
                "econnreset", "etimedout", "temporarily unavailable"} :
    Includes(lowered, mark)

CarriesTransientMark(o) ==
  o.name = "TimeoutError" \/ MentionsTransientCause(ToLowerCase(o.message))

TransientFailure(o) == o.kind = "error" /\ o.name # "AbortError" /\ CarriesTransientMark(o)

EmptyResponse(o) ==
  o.kind = "response" /\ o.text = "" /\ o.blockReason = "" /\ o.finishReason \in {"", "STOP"}

\* C2: one invocation with maxRetries = N issues at most N+1 provider calls
\* (at most 4 with the default N = 3), and an attempt after the first one is
\* started (its backoff, then its call) only when the previous attempt ended
\* in a transient failure or in an empty response.
C2_AtMostNPlusOneCallsAndOnlyAfterTransient ==
  /\ solo.calls <= solo.maxRetries + 1
  /\ solo.maxRetries = RETRY_CONFIG_maxRetries => solo.calls <= 4
  /\ (solo.pc = "backoff" \/ (solo.pc = "inflight" /\ solo.calls > 1)) =>
       (TransientFailure(solo.last) \/ EmptyResponse(solo.last))

\* the fourth call of an invocation with the default maximum is in flight,
\* after a 503 failure
C2_Witness ==
  /\ solo.pc = "inflight"
  /\ solo.maxRetries = 3
  /\ solo.calls = 4
  /\ Includes(solo.last.message, "503")

\* the error an attempt ends with when the provider call settled with o, if
\* that error is a cancellation or a non-transient failure
FatalEnd(o, aborted) ==
  IF o.kind = "error"
  THEN IF o.name = "AbortError" \/ ~CarriesTransientMark(o)
       THEN {[name |-> o.name, message |-> o.message]} ELSE {}
  ELSE IF aborted THEN {AbortError}
  ELSE IF o.text # "" THEN {}
  ELSE IF o.blockReason # "" THEN {Err("Response blocked: " \o o.blockReason)}
  ELSE IF o.finishReason \notin {"", "STOP"}
  THEN {Err("Generation stopped: " \o o.finishReason)}
  ELSE {}

\* C3: once an attempt ends with an AbortError, a safety block, a finish
\* reason other than STOP or an error that is not retryable, the call rejects
\* with that error in the same step; a rejected call never changes again, and
\* no provider call and no backoff starts once the signal is aborted.
C3_NoRetryAfterFatal ==
  [][ /\ (solo.pc = "inflight" /\ solo'.pc # "inflight") =>
           \A e \in FatalEnd(solo'.last, signalAborted) :
             /\ solo'.pc = "rejected"
             /\ solo'.result = Throw(e)
             /\ solo'.calls = solo.calls
             /\ solo'.backoffs = solo.backoffs
      /\ solo.pc = "rejected" => solo' = solo
      /\ signalAborted => (solo'.calls = solo.calls /\ solo'.backoffs = solo.backoffs)
    ]_vars

\* a safety block on the second attempt rejects the call although two more
\* attempts were allowed
C3_Witness ==
  /\ solo.pc = "rejected"
  /\ solo.result = Throw(Err("Response blocked: SAFETY"))
  /\ solo.maxRetries = 3
  /\ solo.calls = 2
  /\ solo.backoffs = 1

\* C4: when generateWithRetry gives up because all its attempts failed, the
\* error it raises is the categorized message of the last failure's cause:
\* "temporarily unavailable (503)" after 503/overload errors, "Rate limit
\* exceeded" after 429 errors, "empty response after multiple attempts" after
\* empty responses.
C4_ExhaustionRaisesCategorizedMessage ==
  (/\ solo.pc = "rejected"
   /\ solo.calls = solo.maxRetries + 1
   /\ ~signalAborted
   /\ (TransientFailure(solo.last) \/ EmptyResponse(solo.last))) =>
    /\ solo.result.error.message \in
         {UNAVAILABLE_MESSAGE, RATE_LIMIT_MESSAGE, EMPTY_RESPONSE_MESSAGE}
    /\ (Includes(solo.last.message, "503") \/ Includes(solo.last.message, "overloaded")) =>
         solo.result.error.message = UNAVAILABLE_MESSAGE
    /\ Includes(solo.last.message, "429") =>
         solo.result.error.message = RATE_LIMIT_MESSAGE
    /\ EmptyResponse(solo.last) =>
         solo.result.error.message = EMPTY_RESPONSE_MESSAGE

\* C5: a cancellation that fires during a backoff delay or an in-flight call
\* cuts the wait short: the call is never left waiting in a backoff delay once
\* the signal is aborted, and no backoff delay runs to completion after the
\* signal was aborted.
C5_CancellationCutsTheWaitShort ==
  /\ ~solo.lateDelay
  /\ (signalAborted /\ solo.pc = "backoff") => FALSE

-----------------------------------------------------------------------------
(* analyzeImages, parseAndValidateJson, compileMJPrompt.  A world w is the
   pair of the analysis state and the generateWithRetry invocations; each
   operator runs the code from one await to the next. *)

MAX_CORRECTIONS == 2
CORRECTION_RETRIES == 1

PLACEHOLDER_DESCRIPTION == "Description generation failed. Analysis data available above."
API_KEY_MISSING == Err("API Key is missing. Please configure it in Settings.")
INVALID_JSON_ERROR ==
  Err("Failed to parse stylistic analysis: The AI returned invalid JSON. Please try again.")
SyntaxError == [name |-> "SyntaxError", message |-> "Unexpected token in JSON"]

\* texts the provider answers with
JSON_OBJECT_TEXT == "{\"meta\":{\"intent\":\"portrait\"},\"negative\":\"None\"}"
JSON_ARRAY_TEXT == "[{\"meta\":{\"intent\":\"portrait\"},\"negative\":\"None\"}]"
JSON_TRUNCATED_TEXT == "{\"meta\":{\"intent\":"
MJ_TEXT == "{\"positive\":\"portrait, in the style of film noir\",\"negative\":\"blurry\"}"
MJ_NO_NEGATIVE_TEXT == "{\"positive\":\"portrait\",\"negative\":null}"
MJ_NO_POSITIVE_TEXT == "{\"positive\":\"\",\"negative\":\"blurry\"}"
DESCRIPTION_TEXT == "A portrait in warm light."

ParsedObject ==
  Obj([meta |-> Obj([intent |-> Str("portrait")]), negative |-> Str("None")])

\* JSON.parse on the texts above
JSONParse(text) ==
  CASE text = JSON_OBJECT_TEXT -> Return(ParsedObject)
    [] text = JSON_ARRAY_TEXT -> Return(Arr(<<ParsedObject>>))
    [] text = "[]" -> Return(Arr(<<>>))
    [] text = "null" -> Return(Null)
    [] text = MJ_TEXT ->
         Return(Obj([positive |-> Str("portrait, in the style of film noir"),
                     negative |-> Str("blurry")]))
    [] text = MJ_NO_NEGATIVE_TEXT ->
         Return(Obj([positive |-> Str("portrait"), negative |-> Null]))
    [] text = MJ_NO_POSITIVE_TEXT ->
         Return(Obj([positive |-> Str(""), negative |-> Str("blurry")]))
    [] OTHER -> Throw(SyntaxError)

\* the try block of parseAndValidateJson
ParseFirst(text) ==
  IF Throws(JSONParse(text)) THEN JSONParse(text)
  ELSE IF JSONParse(text).value.t = "array"
  THEN IF Len(JSONParse(text).value.items) = 0
       THEN Throw(Err("Empty analysis array returned"))
       ELSE Return(JSONParse(text).value.items[1])
  ELSE JSONParse(text)

generateWithModel(aborted) == generateWithRetry(RETRY_CONFIG_maxRetries, aborted)
correctMalformedJson(aborted) == generateWithRetry(CORRECTION_RETRIES, aborted)

\* what Promise.allSettled keeps of an invocation
Settled(st) == [Idle EXCEPT !.pc = st.pc, !.result = st.result]

IsSettled(st) == st.pc \in {"resolved", "rejected"}

RejectAnalysis(w, e) == [w EXCEPT !.an.pc = "rejected", !.an.result = Throw(e)]

\* descText || "Description generation failed. ..."
descriptionText(descResult) ==
  IF descResult.completion = "return" /\ descResult.value # ""
  THEN descResult.value ELSE PLACEHOLDER_DESCRIPTION

\* the return statement of analyzeImages
Finish(w) ==
  [w EXCEPT !.an.pc = "resolved",
            !.an.result = Return([json |-> w.an.json,
                                  description |-> descriptionText(w.an.descResult),
                                  mjPrompt |-> w.an.mj.value])]

\* compileMJPrompt completed with c: analyzeImages awaits it without a catch
CompileDone(w, c) ==
  IF Throws(c)
  THEN [w EXCEPT !.an.mj = c, !.an.pc = "rejected", !.an.result = c]
  ELSE Finish([w EXCEPT !.an.mj = c])

\* compileMJPrompt after JSON.parse succeeded
compileValidate(data) ==
  IF data.t \in {"null", "undefined"} THEN Return(Null)
  ELSE IF Get(data, "positive").t # "string" \/ ~Truthy(Get(data, "positive"))
  THEN Return(Null)
  ELSE Return(Obj([positive |-> Get(data, "positive"),
                   negative |-> IF Get(data, "negative").t = "string"
                                THEN Get(data, "negative") ELSE Str("")]))

compileParse(text) ==
  IF Throws(JSONParse(text)) THEN Return(Null)
  ELSE compileValidate(JSONParse(text).value)

\* compileMJPrompt up to its await
compileMJPrompt(w, aborted, key) ==
  IF ~(w.an.provided \/ key) THEN CompileDone(w, Return(Null))
  ELSE IF Throws(checkAborted(aborted)) THEN CompileDone(w, checkAborted(aborted))
  ELSE [w EXCEPT !.an.pc = "compiling", !.proc["mj"] = generateWithModel(aborted)]

\* compileMJPrompt after its await
compileSettled(w, aborted) ==
  IF w.proc["mj"].pc = "resolved"
  THEN IF Throws(checkAborted(aborted)) THEN CompileDone(w, checkAborted(aborted))
       ELSE CompileDone(w, compileParse(w.proc["mj"].result.value))
  ELSE IF w.proc["mj"].pc = "rejected"
  THEN IF w.proc["mj"].result.error.name = "AbortError"
       THEN CompileDone(w, w.proc["mj"].result)
       ELSE CompileDone(w, Return(Null))
  ELSE w

\* return normalizeMetadata(parsed), then the rest of analyzeImages
Normalized(w, c, aborted, key) ==
  IF Throws(c) THEN RejectAnalysis(w, c.error)
  ELSE compileMJPrompt([w EXCEPT !.an.json = c.value], aborted, key)

\* one iteration of the loop of parseAndValidateJson, up to its await
ParseLoop(w, aborted, key) ==
  IF w.an.attempt > MAX_CORRECTIONS
  THEN RejectAnalysis(w, Err("Failed to get valid response after multiple correction attempts."))
  ELSE IF Throws(checkAborted(aborted)) THEN RejectAnalysis(w, checkAborted(aborted).error)
  ELSE IF Throws(ParseFirst(w.an.currentText))
  THEN IF w.an.attempt >= MAX_CORRECTIONS THEN RejectAnalysis(w, INVALID_JSON_ERROR)
       ELSE [w EXCEPT !.an.pc = "correcting",
                      !.proc["correction"] = correctMalformedJson(aborted)]
  ELSE Normalized(w, normalizeMetadata(ParseFirst(w.an.currentText).value), aborted, key)

\* parseAndValidateJson after await correctMalformedJson(...)
correctionSettled(w, aborted, key) ==
  IF w.proc["correction"].pc = "resolved"
  THEN ParseLoop([w EXCEPT !.an.currentText = w.proc["correction"].result.value,
                           !.an.attempt = @ + 1,
                           !.proc["correction"] = Idle], aborted, key)
  ELSE IF w.proc["correction"].pc = "rejected"
  THEN RejectAnalysis(w, w.proc["correction"].result.error)
  ELSE w

\* an analyzeImages that accepts a failed structured call
AfterAllSettledJsonOptional(w, aborted, key) ==
  IF Throws(checkAborted(aborted)) THEN RejectAnalysis(w, checkAborted(aborted).error)
  ELSE IF Throws(w.an.jsonResult)
  THEN compileMJPrompt([w EXCEPT !.an.json = normalizedSections(Obj(NoFields))], aborted, key)
  ELSE ParseLoop([w EXCEPT !.an.currentText = w.an.jsonResult.value, !.an.attempt = 0],
                 aborted, key)

\* analyzeImages after await Promise.allSettled([...])
AfterAllSettled(w, aborted, key) ==
  IF Throws(checkAborted(aborted)) THEN RejectAnalysis(w, checkAborted(aborted).error)
  ELSE IF Throws(w.an.jsonResult) THEN RejectAnalysis(w, w.an.jsonResult.error)
  ELSE ParseLoop([w EXCEPT !.an.currentText = w.an.jsonResult.value, !.an.attempt = 0],
                 aborted, key)

\* Promise.all in the place of Promise.allSettled: the first rejection wins
allSettledAsAll(w, aborted, key) ==
  IF w.proc["json"].pc = "rejected" THEN RejectAnalysis(w, w.proc["json"].result.error)
  ELSE IF w.proc["desc"].pc = "rejected" THEN RejectAnalysis(w, w.proc["desc"].result.error)
  ELSE IF IsSettled(w.proc["json"]) /\ IsSettled(w.proc["desc"])
  THEN AfterAllSettled([w EXCEPT !.an.jsonResult = w.proc["json"].result,
                                 !.an.descResult = w.proc["desc"].result,
                                 !.proc["json"] = Settled(@),
                                 !.proc["desc"] = Settled(@)], aborted, key)
  ELSE w

\* Promise.allSettled: nothing happens before both invocations have settled
allSettled(w, aborted, key) ==
  IF IsSettled(w.proc["json"]) /\ IsSettled(w.proc["desc"])
  THEN AfterAllSettled([w EXCEPT !.an.jsonResult = w.proc["json"].result,
                                 !.an.descResult = w.proc["desc"].result,
                                 !.proc["json"] = Settled(@),
                                 !.proc["desc"] = Settled(@)], aborted, key)
  ELSE w

\* the continuation awaiting invocation p
Continue(w, p, aborted, key) ==
  CASE p \in {"json", "desc"} -> allSettled(w, aborted, key)
    [] p = "correction" -> correctionSettled(w, aborted, key)
    [] p = "mj" -> compileSettled(w, aborted)

\* analyzeImages up to await withTimeout(Promise.all(files.map(...)))
analyzeImages(provided, aborted, key) ==
  IF ~(provided \/ key)
  THEN [AnalysisIdle EXCEPT !.pc = "rejected", !.provided = provided,
                            !.result = Throw(API_KEY_MISSING)]
  ELSE IF Throws(checkAborted(aborted))
  THEN [AnalysisIdle EXCEPT !.pc = "rejected", !.provided = provided,
                            !.result = checkAborted(aborted)]
  ELSE [AnalysisIdle EXCEPT !.pc = "images", !.provided = provided]

\* analyzeImages from the images to await Promise.allSettled([...])
AfterImages(w, c, aborted, key) ==
  IF Throws(c) THEN RejectAnalysis(w, c.error)
  ELSE IF Throws(checkAborted(aborted)) THEN RejectAnalysis(w, checkAborted(aborted).error)
  ELSE allSettled([w EXCEPT !.an.pc = "awaitBoth",
                            !.proc["json"] = generateWithModel(aborted),
                            !.proc["desc"] = generateWithModel(aborted)], aborted, key)

-----------------------------------------------------------------------------
(* analyzeImages as a state machine *)

IMAGE_TIMEOUT_MESSAGE ==
  "Request timed out after 30 seconds during image processing. This may indicate network issues or the API is overloaded. Please try again with smaller images or fewer images."

\* what fileToGenerativePart under withTimeout settles with
ImageOutcomes(aborted) ==
  { Return(Undefined),
    Throw(Err("Failed to convert HEIC/HEIF image: photo.heic")),
    Throw([name |-> "TimeoutError", message |-> IMAGE_TIMEOUT_MESSAGE]) }
  \cup (IF aborted THEN {Throw(AbortError)} ELSE {})

BAD_REQUEST == Failure("Error", "[GoogleGenerativeAI Error]: [400 Bad Request] API key not valid")
UNAVAILABLE ==
  Failure("Error", "[GoogleGenerativeAI Error]: [503 Service Unavailable] The model is overloaded.")

\* what the provider call of invocation p can settle with
AnalyzeOutcomes(p, aborted) ==
  (CASE p = "json" ->
          { Response(JSON_OBJECT_TEXT, "", "STOP"), Response(JSON_ARRAY_TEXT, "", "STOP"),
            Response("null", "", "STOP"), Response("[]", "", "STOP"),
            Response(JSON_TRUNCATED_TEXT, "", "MAX_TOKENS") }
     [] p = "desc" -> { Response(DESCRIPTION_TEXT, "", "STOP") }
     [] p = "correction" ->
          { Response(JSON_OBJECT_TEXT, "", "STOP"), Response(JSON_TRUNCATED_TEXT, "", "STOP") }
     [] p = "mj" ->
          { Response(MJ_TEXT, "", "STOP"), Response(MJ_NO_NEGATIVE_TEXT, "", "STOP"),
            Response(MJ_NO_POSITIVE_TEXT, "", "STOP"), Response("null", "", "STOP"),
            Response(JSON_TRUNCATED_TEXT, "", "STOP") })
  \cup { Response("", "", "STOP"), UNAVAILABLE, BAD_REQUEST }
  \cup (IF aborted THEN {FetchAborted} ELSE {})

World == [an |-> an, proc |-> proc]

AnalyzeInit ==
  /\ NormIdle
  /\ DriftIdle
  /\ CallIdle
  /\ signalAborted = FALSE
  /\ proc = [p \in ProcIds |-> Idle]
  /\ an = AnalysisIdle
  /\ storedApiKey \in BOOLEAN

AnalyzeStart ==
  /\ an.pc = "idle"
  /\ \E provided \in BOOLEAN :
       an' = analyzeImages(provided, signalAborted, storedApiKey)
  /\ UNCHANGED <<normVars, callVars, driftVars, signalAborted, proc, storedApiKey>>

ImagesProcessed ==
  /\ an.pc = "images"
  /\ \E c \in ImageOutcomes(signalAborted) :
       \E w \in {AfterImages(World, c, signalAborted, storedApiKey)} :
         an' = w.an /\ proc' = w.proc
  /\ UNCHANGED <<normVars, callVars, driftVars, signalAborted, storedApiKey>>

\* invocation p moves to st, and whatever awaits it runs on
Advance(p, st) ==
  \E w \in {Continue([World EXCEPT !.proc[p] = st], p, signalAborted, storedApiKey)} :
    an' = w.an /\ proc' = w.proc

AnalyzeDelayElapsed ==
  /\ \E p \in ProcIds \ {"solo"} :
       /\ proc[p].pc = "backoff"
       /\ Advance(p, AfterDelay(proc[p], signalAborted))
  /\ UNCHANGED <<normVars, callVars, driftVars, signalAborted, storedApiKey>>

AnalyzeSettle ==
  /\ \E p \in ProcIds \ {"solo"} :
       /\ proc[p].pc = "inflight"
       /\ \E o \in AnalyzeOutcomes(p, signalAborted) :
            Advance(p, OnSettled([proc[p] EXCEPT !.last = o], o, signalAborted))
  /\ UNCHANGED <<normVars, callVars, driftVars, signalAborted, storedApiKey>>

\* clearConfig: the user removes the stored settings
ClearConfig ==
  /\ storedApiKey
  /\ storedApiKey' = FALSE
  /\ UNCHANGED <<normVars, callVars, driftVars, signalAborted, proc, an>>

AnalyzeNext ==
  AnalyzeStart \/ ImagesProcessed \/ AnalyzeDelayElapsed \/ AnalyzeSettle \/ Abort \/ ClearConfig

SpecAnalyze == AnalyzeInit /\ [][AnalyzeNext]_vars

-----------------------------------------------------------------------------
(* Claims about analyzeImages and compileMJPrompt *)

json == proc["json"]
desc == proc["desc"]

AnalysisOver == an.pc \in {"resolved", "rejected"}

\* C6 (as stated): the two calls are issued together and each is awaited to
\* completion whatever the other does; when the structured call failed the
\* operation rejects with the structured call's error; when only the
\* description call failed the operation resolves with the normalized
\* metadata and the placeholder description.
C6_StructuredFatalDescriptionOptional ==
  /\ an.pc = "awaitBoth" => (json.pc # "idle" /\ desc.pc # "idle")
  /\ (AnalysisOver /\ json.pc # "idle") => (IsSettled(json) /\ IsSettled(desc))
  /\ Throws(an.jsonResult) => (an.pc = "rejected" /\ an.result = an.jsonResult)
  /\ (AnalysisOver /\ an.jsonResult.completion = "return" /\ Throws(an.descResult)) =>
       /\ an.pc = "resolved"
       /\ an.result.value.description = PLACEHOLDER_DESCRIPTION
       /\ IsCompleteMetadata(an.result.value.json)

\* C6 (amended): the two calls are issued together and nothing happens before
\* both have settled; then a cancelled signal rejects the operation with the
\* cancellation error, otherwise a failed structured call rejects it with the
\* structured call's error, otherwise a failed description call does not
\* reject it: the operation goes on to parse and normalize the structured
\* text (only a throwing normalizer rejects it in that step), and whenever it
\* resolves after a failed description call the result holds the normalized
\* metadata and the placeholder description.
C6_SettleBothThenBranch ==
  [][ /\ an'.pc = "awaitBoth" => (json'.pc # "idle" /\ desc'.pc # "idle")
      /\ (an'.pc \in {"correcting", "compiling", "resolved"}
            \/ (an'.pc = "rejected" /\ json'.pc # "idle")) =>
           (IsSettled(json') /\ IsSettled(desc'))
      /\ (an.pc = "awaitBoth" /\ an'.pc # "awaitBoth") =>
           IF signalAborted
           THEN an'.pc = "rejected" /\ an'.result = Throw(AbortError)
           ELSE IF Throws(an'.jsonResult)
           THEN an'.pc = "rejected" /\ an'.result = an'.jsonResult
           ELSE (Throws(an'.descResult) /\ an'.pc = "rejected") =>
                  an'.result = Throw(TypeError)
      /\ (an'.pc = "resolved" /\ Throws(an'.descResult)) =>
           /\ an'.result.value.description = PLACEHOLDER_DESCRIPTION
           /\ IsCompleteMetadata(an'.result.value.json)
    ]_vars

\* the description call failed for good, the structured call succeeded, and
\* the analysis resolved with the parsed metadata and the placeholder
C6_Witness ==
  /\ an.pc = "resolved"
  /\ Throws(an.descResult)
  /\ an.jsonResult.completion = "return"
  /\ an.result.value.description = PLACEHOLDER_DESCRIPTION
  /\ an.result.value.json.meta.intent = "portrait"

\* C7 (as stated): whichever one of the two calls fails while the other
\* succeeds, the analysis completes without throwing and returns the
\* succeeding half, the failing half replaced by a placeholder or null.
C7_EitherHalfMayFail ==
  (AnalysisOver /\ an.jsonResult # NotCalled
     /\ Throws(an.jsonResult) # Throws(an.descResult)) =>
    /\ an.pc = "resolved"
    /\ an.result.value.description =
         (IF Throws(an.descResult) THEN PLACEHOLDER_DESCRIPTION ELSE an.descResult.value)

\* C7 (amended): only the description half may fail.  A failed structured
\* call with a successful description rejects the analysis, with the
\* structured call's error or the cancellation error; every result the
\* analysis returns comes from a successful structured call and holds the
\* normalized metadata, the description text or else the placeholder, and a
\* compiled prompt or null.
C7_OnlyDescriptionMayFail ==
  /\ (Throws(an.jsonResult) /\ an.descResult.completion = "return") =>
       /\ an.pc = "rejected"
       /\ an.result.error \in {an.jsonResult.error, AbortError}
  /\ an.pc = "resolved" =>
       /\ an.jsonResult.completion = "return"
       /\ IsCompleteMetadata(an.result.value.json)
       /\ an.result.value.description =
            (IF Throws(an.descResult) THEN PLACEHOLDER_DESCRIPTION ELSE an.descResult.value)
       /\ an.result.value.mjPrompt.t \in {"null", "object"}

\* the structured call was rejected as a bad request, the description call
\* succeeded, nobody cancelled, and the analysis rejected with that error
C7_Witness ==
  /\ an.pc = "rejected"
  /\ ~signalAborted
  /\ an.descResult = Return(DESCRIPTION_TEXT)
  /\ Throws(an.jsonResult)
  /\ an.result = an.jsonResult
  /\ Includes(an.result.error.message, "400")

\* C8: compileMJPrompt never rejects: for a missing API key, any provider
\* error, invalid output and a cancellation before or during the call it
\* resolves to null, and no error of it propagates into analyzeImages.
C8_CompileNeverRejects ==
  /\ ~Throws(an.mj)
  /\ (an.pc = "rejected" /\ an.json # NotCalled) => an.mj = NotCalled

-----------------------------------------------------------------------------
(* utils/driftMaps.ts: the tables, each in its declaration order *)

EYE_COLOR_DRIFT ==
  << <<"violet", <<"blue", "purple", "lavender">>>>,
     <<"blue", <<"grey", "teal", "green">>>>,
     <<"green", <<"teal", "hazel", "blue">>>>,
     <<"hazel", <<"brown", "green", "amber">>>>,
     <<"brown", <<"black", "amber", "dark">>>>,
     <<"amber", <<"brown", "orange", "golden">>>>,
     <<"grey", <<"blue", "silver", "pale">>>>,
     <<"gray", <<"blue", "silver", "pale">>>>,
     <<"black", <<"dark brown", "deep", "hollow">>>>,
     <<"red", <<"crimson", "pink", "burgundy">>>>,
     <<"gold", <<"amber", "yellow", "orange">>>>,
     <<"golden", <<"amber", "yellow", "brown">>>>,
     <<"silver", <<"grey", "white", "pale">>>>,
     <<"teal", <<"blue", "green", "aqua">>>>,
     <<"aqua", <<"blue", "teal", "cyan">>>>,
     <<"heterochromia", <<"matching eyes", "same color", "uniform">>>> >>

EYE_SHAPE_DRIFT ==
  << <<"almond", <<"round", "wide", "narrow">>>>,
     <<"round", <<"almond", "narrow", "angular">>>>,
     <<"hooded", <<"wide-open", "round", "prominent">>>>,
     <<"downturned", <<"upturned", "neutral", "wide">>>>,
     <<"upturned", <<"downturned", "neutral", "droopy">>>>,
     <<"monolid", <<"double lid", "creased", "deep-set">>>>,
     <<"deep-set", <<"prominent", "bulging", "shallow">>>>,
     <<"prominent", <<"deep-set", "sunken", "hooded">>>>,
     <<"wide-set", <<"close-set", "narrow", "close">>>>,
     <<"close-set", <<"wide-set", "far apart", "wide">>>> >>

FACE_SHAPE_DRIFT ==
  << <<"oval", <<"round", "oblong", "angular">>>>,
     <<"round", <<"oval", "square", "angular">>>>,
     <<"angular", <<"soft", "round", "gentle">>>>,
     <<"square", <<"round", "rectangular", "oval">>>>,
     <<"heart", <<"oval", "round", "triangular">>>>,
     <<"heart-shaped", <<"oval", "round", "triangular">>>>,
     <<"oblong", <<"oval", "rectangular", "round">>>>,
     <<"diamond", <<"oval", "angular", "heart">>>>,
     <<"rectangular", <<"square", "oval", "round">>>>,
     <<"triangular", <<"heart", "oval", "round">>>>,
     <<"soft", <<"angular", "sharp", "defined">>>> >>

BROW_STYLE_DRIFT ==
  << <<"natural arch", <<"straight", "flat", "angular">>>>,
     <<"high arch", <<"low", "straight", "flat">>>>,
     <<"straight", <<"arched", "curved", "rounded">>>>,
     <<"s-shaped", <<"straight", "arched", "angular">>>>,
     <<"rounded", <<"angular", "straight", "sharp">>>>,
     <<"angled", <<"rounded", "soft", "curved">>>>,
     <<"thick", <<"thin", "sparse", "light">>>>,
     <<"thin", <<"thick", "bushy", "heavy">>>>,
     <<"bushy", <<"thin", "groomed", "sparse">>>> >>

NOSE_SHAPE_DRIFT ==
  << <<"straight", <<"curved", "hooked", "upturned">>>>,
     <<"straight bridge", <<"curved", "hooked", "bumpy">>>>,
     <<"button", <<"long", "pointed", "aquiline">>>>,
     <<"aquiline", <<"button", "snub", "flat">>>>,
     <<"snub", <<"long", "pointed", "aquiline">>>>,
     <<"wide", <<"narrow", "thin", "pointed">>>>,
     <<"narrow", <<"wide", "broad", "flat">>>>,
     <<"roman", <<"button", "flat", "snub">>>>,
     <<"upturned", <<"downturned", "straight", "hooked">>>>,
     <<"hooked", <<"straight", "button", "upturned">>>> >>

LIP_SHAPE_DRIFT ==
  << <<"full", <<"thin", "narrow", "flat">>>>,
     <<"thin", <<"full", "plump", "thick">>>>,
     <<"cupid's bow", <<"flat", "straight", "undefined">>>>,
     <<"wide", <<"narrow", "small", "thin">>>>,
     <<"heart-shaped", <<"straight", "flat", "wide">>>>,
     <<"bow-shaped", <<"straight", "flat", "thin">>>>,
     <<"plump", <<"thin", "narrow", "flat">>>>,
     <<"natural", <<"exaggerated", "enhanced", "artificial">>>> >>

HAIR_LENGTH_DRIFT ==
  << <<"bald", <<"hair", "long hair", "short hair">>>>,
     <<"shaved", <<"long", "medium", "flowing">>>>,
     <<"buzzed", <<"long", "flowing", "shoulder">>>>,
     <<"cropped", <<"long", "flowing", "waist">>>>,
     <<"pixie", <<"long", "flowing", "shoulder-length">>>>,
     <<"short", <<"long", "flowing", "waist-length">>>>,
     <<"chin-length", <<"long", "short", "waist">>>>,
     <<"chin", <<"long", "short", "waist">>>>,
     <<"shoulder-length", <<"waist", "short", "cropped">>>>,
     <<"shoulder", <<"waist", "short", "cropped">>>>,
     <<"mid-back", <<"short", "cropped", "chin">>>>,
     <<"waist-length", <<"short", "cropped", "pixie">>>>,
     <<"waist", <<"short", "cropped", "pixie">>>>,
     <<"hip-length", <<"short", "cropped", "chin">>>>,
     <<"floor-length", <<"short", "medium", "shoulder">>>>,
     <<"long", <<"short", "cropped", "pixie">>>> >>

HAIR_WAVE_DRIFT ==
  << <<"pin-straight", <<"wavy", "curly", "coiled">>>>,
     <<"straight", <<"wavy", "curly", "kinky">>>>,
     <<"slightly wavy", <<"straight", "curly", "coiled">>>>,
     <<"wavy", <<"straight", "curly", "coiled">>>>,
     <<"loose waves", <<"straight", "tight curls", "coiled">>>>,
     <<"curly", <<"straight", "wavy", "pin-straight">>>>,
     <<"tight curls", <<"loose", "wavy", "straight">>>>,
     <<"coily", <<"straight", "wavy", "loose">>>>,
     <<"coiled", <<"straight", "wavy", "loose">>>>,
     <<"kinky", <<"straight", "wavy", "loose waves">>>>,
     <<"afro", <<"straight", "wavy", "flat">>>>,
     <<"textured", <<"smooth", "straight", "sleek">>>> >>

HAIR_PART_DRIFT ==
  << <<"center", <<"side", "left", "right">>>>,
     <<"left", <<"right", "center", "middle">>>>,
     <<"right", <<"left", "center", "middle">>>>,
     <<"deep side", <<"center", "middle", "slight">>>>,
     <<"none", <<"parted", "center part", "side part">>>>,
     <<"middle", <<"side", "left", "right">>>> >>

HAIR_COLOR_DRIFT ==
  << <<"black", <<"brown", "dark brown", "grey">>>>,
     <<"dark brown", <<"black", "light brown", "auburn">>>>,
     <<"brown", <<"black", "blonde", "red">>>>,
     <<"light brown", <<"dark brown", "blonde", "auburn">>>>,
     <<"auburn", <<"brown", "red", "copper">>>>,
     <<"red", <<"auburn", "orange", "brown">>>>,
     <<"ginger", <<"red", "blonde", "auburn">>>>,
     <<"strawberry blonde", <<"blonde", "red", "ginger">>>>,
     <<"blonde", <<"brown", "dark", "black">>>>,
     <<"platinum", <<"yellow blonde", "golden", "grey">>>>,
     <<"white", <<"grey", "blonde", "silver">>>>,
     <<"grey", <<"white", "black", "brown">>>>,
     <<"gray", <<"white", "black", "brown">>>>,
     <<"silver", <<"grey", "white", "blonde">>>>,
     <<"blue", <<"black", "purple", "teal">>>>,
     <<"purple", <<"blue", "pink", "black">>>>,
     <<"pink", <<"purple", "red", "blonde">>>>,
     <<"green", <<"blue", "teal", "black">>>> >>

SKIN_TONE_DRIFT ==
  << <<"porcelain", <<"tan", "dark", "olive">>>>,
     <<"fair", <<"tan", "dark", "olive">>>>,
     <<"pale", <<"tan", "dark", "medium">>>>,
     <<"light", <<"dark", "tan", "deep">>>>,
     <<"medium", <<"pale", "dark", "fair">>>>,
     <<"olive", <<"pale", "dark", "fair">>>>,
     <<"tan", <<"pale", "fair", "dark">>>>,
     <<"golden", <<"pale", "cool", "ashen">>>>,
     <<"brown", <<"pale", "fair", "light">>>>,
     <<"dark", <<"pale", "fair", "light">>>>,
     <<"deep", <<"pale", "fair", "light">>>>,
     <<"ebony", <<"pale", "fair", "light">>>>,
     <<"warm", <<"cool", "cold", "ashen">>>>,
     <<"cool", <<"warm", "golden", "yellow">>>>,
     <<"neutral", <<"warm", "cool", "extreme">>>> >>

BODY_STRUCTURE_DRIFT ==
  << <<"petite", <<"tall", "large", "heavy">>>>,
     <<"slim", <<"heavy", "muscular", "stocky">>>>,
     <<"slender", <<"stocky", "muscular", "heavy">>>>,
     <<"athletic", <<"overweight", "thin", "frail">>>>,
     <<"toned", <<"soft", "flabby", "heavy">>>>,
     <<"average", <<"extreme", "very thin", "very heavy">>>>,
     <<"curvy", <<"angular", "thin", "flat">>>>,
     <<"muscular", <<"thin", "frail", "soft">>>>,
     <<"stocky", <<"thin", "tall", "lanky">>>>,
     <<"heavy", <<"thin", "slender", "petite">>>>,
     <<"tall", <<"short", "petite", "small">>>>,
     <<"short", <<"tall", "lanky", "elongated">>>> >>

TEXTURE_DRIFT ==
  << <<"silky", <<"coarse", "rough", "wiry">>>>,
     <<"smooth", <<"rough", "textured", "coarse">>>>,
     <<"soft", <<"coarse", "wiry", "rough">>>>,
     <<"coarse", <<"silky", "smooth", "fine">>>>,
     <<"fine", <<"thick", "coarse", "heavy">>>>,
     <<"thick", <<"thin", "fine", "sparse">>>>,
     <<"wiry", <<"silky", "soft", "smooth">>>>,
     <<"fluffy", <<"flat", "sleek", "limp">>>>,
     <<"sleek", <<"fluffy", "messy", "wild">>>> >>

DEFAULT_NEGATIVES == <<"different", "changed", "altered">>

\* the maps object of inferNegatives
CategoryTables ==
  << <<"eyeColor", EYE_COLOR_DRIFT>>, <<"eyeShape", EYE_SHAPE_DRIFT>>,
     <<"primaryColor", EYE_COLOR_DRIFT>>, <<"faceShape", FACE_SHAPE_DRIFT>>,
     <<"browStyle", BROW_STYLE_DRIFT>>, <<"noseShape", NOSE_SHAPE_DRIFT>>,
     <<"lipShape", LIP_SHAPE_DRIFT>>, <<"hairLength", HAIR_LENGTH_DRIFT>>,
     <<"hairWave", HAIR_WAVE_DRIFT>>, <<"hairPart", HAIR_PART_DRIFT>>,
     <<"hairColor", HAIR_COLOR_DRIFT>>, <<"accentColor", HAIR_COLOR_DRIFT>>,
     <<"skinTone", SKIN_TONE_DRIFT>>, <<"secondaryColor", SKIN_TONE_DRIFT>>,
     <<"structure", BODY_STRUCTURE_DRIFT>>, <<"bodyBuild", BODY_STRUCTURE_DRIFT>>,
     <<"texture", TEXTURE_DRIFT>> >>

-----------------------------------------------------------------------------
(* Property lookup on the objects findBestMatch and inferNegatives index.
   The tables and the maps object are object literals: a name that is not an
   own property is looked up on Object.prototype. *)

DriftMap(entries) == [t |-> "object", kind |-> "DriftMap", entries |-> entries]
ObjectPrototype == [t |-> "object", kind |-> "Object.prototype", entries |-> <<>>]
BuiltinFunction(name) == [t |-> "function", kind |-> name, entries |-> <<>>]

\* a [string, string, string] value
Triple(ns) == Arr(<<Str(ns[1]), Str(ns[2]), Str(ns[3])>>)

ObjectPrototypeMethods ==
  {"hasOwnProperty", "isPrototypeOf", "propertyIsEnumerable", "toLocaleString",
   "toString", "valueOf"}
FunctionPrototypeMethods == {"apply", "bind", "call", "toString"}
ObjectStatics == {"assign", "create", "entries", "freeze", "keys", "values"}

\* the length property of a built-in function
FunctionLength(name) ==
  IF name \in {"toString", "toLocaleString", "valueOf"} THEN 0
  ELSE IF name \in {"assign", "create", "apply"} THEN 2
  ELSE 1

\* key looked up on Object.prototype
InheritedProperty(key) ==
  IF key = "constructor" THEN BuiltinFunction("Object")
  ELSE IF key = "__proto__" THEN ObjectPrototype
  ELSE IF key \in ObjectPrototypeMethods THEN BuiltinFunction(key)
  ELSE Undefined

\* f[key] for a built-in function f
FunctionProperty(f, key) ==
  CASE key = "name" -> Str(f.kind)
    [] key = "length" -> Num(10 * FunctionLength(f.kind))
    [] key = "prototype" -> IF f.kind = "Object" THEN ObjectPrototype ELSE Undefined
    [] key = "constructor" -> BuiltinFunction("Function")
    [] key = "__proto__" -> BuiltinFunction("Function.prototype")
    [] key \in FunctionPrototypeMethods -> BuiltinFunction(key)
    [] f.kind = "Object" /\ key \in ObjectStatics -> BuiltinFunction(key)
    [] OTHER -> InheritedProperty(key)

HasOwn(entries, key) == \E i \in 1..Len(entries) : entries[i][1] = key
OwnValue(entries, key) == entries[CHOOSE i \in 1..Len(entries) : entries[i][1] = key][2]

\* map[key]
GetProperty(map, key) ==
  IF map.t = "function" THEN FunctionProperty(map, key)
  ELSE IF HasOwn(map.entries, key) THEN Triple(OwnValue(map.entries, key))
  ELSE IF map.kind = "Object.prototype" /\ key = "__proto__" THEN Null
  ELSE InheritedProperty(key)

\* maps[category]
MapOf(cat) ==
  IF HasOwn(CategoryTables, cat) THEN DriftMap(OwnValue(CategoryTables, cat))
  ELSE InheritedProperty(cat)

-----------------------------------------------------------------------------
(* findBestMatch and inferNegatives *)

RECURSIVE TrimEnd(_)
TrimEnd(s) ==
  IF Len(s) > 0 /\ CharAt(s, Len(s)) \in WhiteSpace
  THEN TrimEnd(SubSeq(s, 1, Len(s) - 1)) ELSE s

\* String.prototype.trim
trim(s) == TrimEnd(SkipWhiteSpace(s))

\* s.split(/[\s-]+/), reading s after the word collected so far
RECURSIVE SplitFrom(_, _, _)
SplitFrom(s, word, inSeparator) ==
  IF Len(s) = 0 THEN <<word>>
  ELSE IF CharAt(s, 1) \in WhiteSpace \cup {"-"}
  THEN IF inSeparator THEN SplitFrom(Tail(s), "", TRUE)
       ELSE <<word>> \o SplitFrom(Tail(s), "", TRUE)
  ELSE SplitFrom(Tail(s), word \o CharAt(s, 1), FALSE)

split(s) == SplitFrom(s, "", FALSE)

\* the test of the partial-match loop on entry i
PartialHit(normalized, entries, i) ==
  Includes(normalized, entries[i][1]) \/ Includes(entries[i][1], normalized)

\* the loop over Object.entries(map): its result, Null when it falls through
PartialMatch(normalized, entries) ==
  IF \E i \in 1..Len(entries) : PartialHit(normalized, entries, i)
  THEN Triple(entries[CHOOSE i \in 1..Len(entries) :
                        /\ PartialHit(normalized, entries, i)
                        /\ \A j \in 1..(i - 1) : ~PartialHit(normalized, entries, j)][2])
  ELSE Null

\* the loop over the words: its result, Null when it falls through
RECURSIVE WordMatch(_, _)
WordMatch(words, map) ==
  IF Len(words) = 0 THEN Null
  ELSE IF Len(Head(words)) > 2 /\ Truthy(GetProperty(map, Head(words)))
  THEN GetProperty(map, Head(words))
  ELSE WordMatch(Tail(words), map)

MatchNormalized(normalized, map) ==
  IF Truthy(GetProperty(map, normalized)) THEN GetProperty(map, normalized)
  ELSE IF PartialMatch(normalized, map.entries) # Null
  THEN PartialMatch(normalized, map.entries)
  ELSE WordMatch(split(normalized), map)

findBestMatch(v, map) == MatchNormalized(trim(ToLowerCase(v)), map)

inferNegatives(cat, v) ==
  IF v = "" \/ trim(v) = "" THEN Triple(DEFAULT_NEGATIVES)
  ELSE IF ~Truthy(MapOf(cat)) THEN Triple(DEFAULT_NEGATIVES)
  ELSE IF Truthy(findBestMatch(v, MapOf(cat))) THEN findBestMatch(v, MapOf(cat))
  ELSE Triple(DEFAULT_NEGATIVES)

-----------------------------------------------------------------------------
(* inferNegatives as a state machine: one call on one pair of arguments *)

RecognizedCategories == {CategoryTables[i][1] : i \in 1..Len(CategoryTables)}

Categories == RecognizedCategories \cup {"", "pose", "EyeColor", "constructor", "__proto__", "toString"}

Values ==
  { "", "   ", "\t", "violet", " Violet ", "VIOLET", "deep violet", "vio", "blue-green",
    "greenish blue", "heart-shaped", "shoulder length", "oval", "curly", "thick",
    "pale", "a", "xyz", "no match here", "constructor", "__proto__", "my constructor",
    "tostring", "name", "length", "keys" }

DriftInit ==
  /\ NormIdle
  /\ RemoteIdle
  /\ category \in Categories
  /\ value \in Values
  /\ driftPc = "ready"
  /\ driftOut = NotCalled
  /\ CallIdle

InferNegatives ==
  /\ driftPc = "ready"
  /\ driftOut' = Return(inferNegatives(category, value))
  /\ driftPc' = "done"
  /\ UNCHANGED <<normVars, callVars, remoteVars, category, value>>

DriftNext == InferNegatives

SpecDrift == DriftInit /\ [][DriftNext]_vars

-----------------------------------------------------------------------------
(* Claims about inferNegatives *)

\* the table of a recognized category
TableOf(cat) == OwnValue(CategoryTables, cat)

KeyAt(table, i) == table[i][1]

\* the first key, in declaration order, that the partial stage accepts
FirstPartialKey(table, n) ==
  CHOOSE i \in 1..Len(table) :
    /\ (Includes(n, KeyAt(table, i)) \/ Includes(KeyAt(table, i), n))
    /\ \A j \in 1..(i - 1) : ~(Includes(n, KeyAt(table, j)) \/ Includes(KeyAt(table, j), n))

IsKeyWord(table, w) == Len(w) > 2 /\ \E i \in 1..Len(table) : KeyAt(table, i) = w

FirstKeyWord(table, words) ==
  words[CHOOSE j \in 1..Len(words) :
          IsKeyWord(table, words[j]) /\ \A k \in 1..(j - 1) : ~IsKeyWord(table, words[k])]

\* the result of the four stages on the lowercased, trimmed value n
StagedNegatives(table, n) ==
  IF \E i \in 1..Len(table) : KeyAt(table, i) = n
  THEN OwnValue(table, n)
  ELSE IF \E i \in 1..Len(table) : Includes(n, KeyAt(table, i)) \/ Includes(KeyAt(table, i), n)
  THEN table[FirstPartialKey(table, n)][2]
  ELSE IF \E j \in 1..Len(split(n)) : IsKeyWord(table, split(n)[j])
  THEN OwnValue(table, FirstKeyWord(table, split(n)))
  ELSE DEFAULT_NEGATIVES

\* C9: for a recognized category and a non-blank value, inferNegatives
\* returns the result of the first stage that hits: the exact key, else the
\* first key in declaration order that is a substring of the value or
\* contains it, else the first word longer than 2 characters that is a key,
\* else the default triple; inferNegatives("eyeColor", "violet") is
\* ["blue", "purple", "lavender"].
C9_FirstHittingStageDecides ==
  (driftPc = "done" /\ category \in RecognizedCategories /\ trim(value) # "") =>
    /\ driftOut = Return(Triple(StagedNegatives(TableOf(category), trim(ToLowerCase(value)))))
    /\ (category = "eyeColor" /\ value = "violet") =>
         driftOut = Return(Arr(<<Str("blue"), Str("purple"), Str("lavender")>>))

IsStringTriple(v) ==
  v.t = "array" /\ Len(v.items) = 3 /\ \A i \in 1..3 : v.items[i].t = "string"

\* no stage hits: no key equals the value, is a substring of it or contains
\* it, and no word of it is a key
NoStageHits(table, n) ==
  /\ \A i \in 1..Len(table) :
       ~(KeyAt(table, i) = n \/ Includes(n, KeyAt(table, i)) \/ Includes(KeyAt(table, i), n))
  /\ \A j \in 1..Len(split(n)) : ~IsKeyWord(table, split(n)[j])

\* C10: for every category and every value, inferNegatives returns without
\* raising a sequence of exactly 3 strings, and the default triple when the
\* value is empty or blank, the category is not recognized, or no stage hits.
C10_AlwaysATripleDefaultOnMiss ==
  driftPc = "done" =>
    /\ driftOut.completion = "return"
    /\ IsStringTriple(driftOut.value)
    /\ (\/ trim(value) = ""
        \/ category \notin RecognizedCategories
        \/ NoStageHits(TableOf(category), trim(ToLowerCase(value)))) =>
         driftOut.value = Triple(DEFAULT_NEGATIVES)

-----------------------------------------------------------------------------
(* Identity hydration (hydrateIdentity and its helpers)                     *)
(*                                                                         *)
(* A SubjectIdentity is a record of strings; an optional property that is  *)
(* missing, or whose value is undefined, is a key the record does not have.*)

Has(r, k) == k \in DOMAIN r

\* value || '' for a string
OrEmptyString(v) == IF v = "" THEN "" ELSE v

lock(v, cat) ==
  [is |-> OrEmptyString(v), not |-> inferNegatives(cat, OrEmptyString(v))]

lockIdentityColor(color, cat) ==
  [is |-> color, not |-> inferNegatives(cat, color.description)]

lockFaceGeometry(geo) ==
  [faceShape |-> lock(geo.faceShape, "faceShape"),
   eyeShape |-> lock(geo.eyeShape, "eyeShape"),
   browStyle |-> lock(geo.browStyle, "browStyle"),
   noseShape |-> lock(geo.noseShape, "noseShape"),
   lipShape |-> lock(geo.lipShape, "lipShape")]

lockHairSpecifics(hair) ==
  [hairLength |-> lock(hair.hairLength, "hairLength"),
   hairWave |-> lock(hair.hairWave, "hairWave"),
   hairPart |-> lock(hair.hairPart, "hairPart")]

\* the record r with key k set to v when present holds
WithWhen(r, present, k, v) == IF present THEN WithKey(r, k, v) ELSE r

\* the properties hydrateIdentity always sets to a defined value
hydrateRequired(identity) ==
  [primaryColor |-> lockIdentityColor(identity.primaryColor, "eyeColor"),
   secondaryColor |-> lockIdentityColor(identity.secondaryColor, "skinTone"),
   accentColor |-> lockIdentityColor(identity.accentColor, "hairColor"),
   texture |-> lock(identity.texture, "texture"),
   structure |-> lock(identity.structure, "structure"),
   distinguishingFeatures |-> identity.distinguishingFeatures,
   estimatedAge |-> OrEmptyString(identity.estimatedAge),
   species |-> OrEmptyString(identity.species),
   fixedSeed |-> OrEmptyString(identity.fixedSeed)]

hydrateFace(l, identity) ==
  IF Has(identity, "faceGeometry")
  THEN WithKey(l, "faceGeometry", lockFaceGeometry(identity.faceGeometry)) ELSE l

hydrateHair(l, identity) ==
  IF Has(identity, "hairSpecifics")
  THEN WithKey(l, "hairSpecifics", lockHairSpecifics(identity.hairSpecifics)) ELSE l

hydratePassThrough(l, identity) ==
  WithWhen(WithWhen(l, Has(identity, "identityNegatives"), "identityNegatives",
                    IF Has(identity, "identityNegatives")
                    THEN identity.identityNegatives ELSE <<>>),
           Has(identity, "confidence"), "confidence",
           IF Has(identity, "confidence") THEN identity.confidence ELSE <<>>)

hydrateIdentity(identity) ==
  hydratePassThrough(
    hydrateHair(hydrateFace(hydrateRequired(identity), identity), identity), identity)

-----------------------------------------------------------------------------
(* buildLockedIdentityPromptPair and getDriftNegatives *)

When(c, x) == IF c THEN <<x>> ELSE <<>>

Min(a, b) == IF a < b THEN a ELSE b

\* seq.slice(0, n)
Slice(seq, n) == SubSeq(seq, 1, Min(n, Len(seq)))

NonEmpty(s) == s # ""

\* strings.filter(Boolean)
FilterBoolean(strings) == SelectSeq(strings, NonEmpty)

\* [...new Set(seq)]: the first occurrence of every element, in order
RECURSIVE Dedupe(_)
Dedupe(seq) ==
  IF Len(seq) = 0 THEN <<>>
  ELSE LET front == Dedupe(SubSeq(seq, 1, Len(seq) - 1))
           last == seq[Len(seq)]
       IN IF \E i \in 1..Len(front) : front[i] = last THEN front
          ELSE Append(front, last)

RECURSIVE Flatten(_)
Flatten(seqs) == IF Len(seqs) = 0 THEN <<>> ELSE Head(seqs) \o Flatten(Tail(seqs))

geoPositive(geo) ==
  When(geo.faceShape.is # "", geo.faceShape.is \o " face")
    \o When(geo.eyeShape.is # "", geo.eyeShape.is \o " eyes")
    \o When(geo.browStyle.is # "", geo.browStyle.is \o " brows")
    \o When(geo.noseShape.is # "", geo.noseShape.is \o " nose")
    \o When(geo.lipShape.is # "", geo.lipShape.is \o " lips")

\* the `not` values of the face geometry that the builder reads, in order
geoNots(geo) ==
  When(geo.faceShape.is # "", geo.faceShape.not)
    \o When(geo.eyeShape.is # "", geo.eyeShape.not)
    \o When(geo.browStyle.is # "", geo.browStyle.not)
    \o When(geo.noseShape.is # "", geo.noseShape.not)
    \o When(geo.lipShape.is # "", geo.lipShape.not)

lockedHairParts(locked) ==
  (IF Has(locked, "hairSpecifics")
   THEN When(locked.hairSpecifics.hairLength.is # "", locked.hairSpecifics.hairLength.is)
          \o When(locked.hairSpecifics.hairWave.is # "", locked.hairSpecifics.hairWave.is)
   ELSE <<>>)
    \o When(locked.accentColor.is.description # "", locked.accentColor.is.description)

\* mutant: a hair part of 'none' is printed like any other part
lockedHasPartEvenNone(locked) ==
  Has(locked, "hairSpecifics") /\ locked.hairSpecifics.hairPart.is # ""

\* locked.hairSpecifics?.hairPart.is && locked.hairSpecifics.hairPart.is !== 'none'
lockedHasPart(locked) ==
  /\ Has(locked, "hairSpecifics")
  /\ locked.hairSpecifics.hairPart.is # ""
  /\ locked.hairSpecifics.hairPart.is # "none"

lockedHairDesc(locked) ==
  JoinStrings(lockedHairParts(locked), " ") \o " hair"
    \o (IF lockedHasPart(locked)
        THEN " parted " \o locked.hairSpecifics.hairPart.is ELSE "")

hairNots(locked) ==
  (IF Has(locked, "hairSpecifics")
   THEN When(locked.hairSpecifics.hairLength.is # "", locked.hairSpecifics.hairLength.not)
          \o When(locked.hairSpecifics.hairWave.is # "", locked.hairSpecifics.hairWave.not)
   ELSE <<>>)
    \o When(locked.accentColor.is.description # "", locked.accentColor.not)
    \o When(Len(lockedHairParts(locked)) > 0 /\ lockedHasPart(locked),
            locked.hairSpecifics.hairPart.not)

\* mutant: the skin phrase is pushed before the eye-color phrase
pairPositiveSkinFirst(locked) ==
  When(locked.species # "", locked.species)
    \o When(locked.estimatedAge # "", locked.estimatedAge)
    \o (IF Has(locked, "faceGeometry") THEN geoPositive(locked.faceGeometry) ELSE <<>>)
    \o When(locked.secondaryColor.is.description # "",
            locked.secondaryColor.is.description \o " skin")
    \o When(locked.primaryColor.is.description # "",
            locked.primaryColor.is.description \o " eyes")
    \o When(Len(lockedHairParts(locked)) > 0, lockedHairDesc(locked))
    \o When(locked.structure.is # "", locked.structure.is \o " build")
    \o When(locked.texture.is # "" /\ ~Has(locked, "hairSpecifics"), locked.texture.is)
    \o When(Len(locked.distinguishingFeatures) > 0,
            JoinStrings(Slice(locked.distinguishingFeatures, 3), ", "))
    \o When(locked.fixedSeed # "", "\"" \o locked.fixedSeed \o "\"")

\* the array `positive` before the final filter
pairPositive(locked) ==
  When(locked.species # "", locked.species)
    \o When(locked.estimatedAge # "", locked.estimatedAge)
    \o (IF Has(locked, "faceGeometry") THEN geoPositive(locked.faceGeometry) ELSE <<>>)
    \o When(locked.primaryColor.is.description # "",
            locked.primaryColor.is.description \o " eyes")
    \o When(locked.secondaryColor.is.description # "",
            locked.secondaryColor.is.description \o " skin")
    \o When(Len(lockedHairParts(locked)) > 0, lockedHairDesc(locked))
    \o When(locked.structure.is # "", locked.structure.is \o " build")
    \o When(locked.texture.is # "" /\ ~Has(locked, "hairSpecifics"), locked.texture.is)
    \o When(Len(locked.distinguishingFeatures) > 0,
            JoinStrings(Slice(locked.distinguishingFeatures, 3), ", "))
    \o When(locked.fixedSeed # "", "\"" \o locked.fixedSeed \o "\"")

\* every `not` value on which the builder calls .filter(Boolean), in order
pairNots(locked) ==
  (IF Has(locked, "faceGeometry") THEN geoNots(locked.faceGeometry) ELSE <<>>)
    \o When(locked.primaryColor.is.description # "", locked.primaryColor.not)
    \o When(locked.secondaryColor.is.description # "", locked.secondaryColor.not)
    \o hairNots(locked)
    \o When(locked.structure.is # "", locked.structure.not)
    \o When(locked.texture.is # "" /\ ~Has(locked, "hairSpecifics"), locked.texture.not)

\* the strings of an array of strings
StringsOf(arr) == [i \in 1..Len(arr.items) |-> arr.items[i].s]

\* mutant: the user-authored negatives are pushed before the drift negatives
pairNegativeUserFirst(locked) ==
  (IF Has(locked, "identityNegatives") THEN locked.identityNegatives ELSE <<>>)
    \o Flatten([i \in 1..Len(pairNots(locked)) |->
                  FilterBoolean(StringsOf(pairNots(locked)[i]))])

\* the array `negative` before the final filter and Set
pairNegative(locked) ==
  Flatten([i \in 1..Len(pairNots(locked)) |->
             FilterBoolean(StringsOf(pairNots(locked)[i]))])
    \o (IF Has(locked, "identityNegatives") THEN locked.identityNegatives ELSE <<>>)

NotAFunction == [name |-> "TypeError", message |-> "not.filter is not a function"]

\* `not.filter` is a function only on an array
buildLockedIdentityPromptPair(locked) ==
  IF \E i \in 1..Len(pairNots(locked)) : pairNots(locked)[i].t # "array"
  THEN Throw(NotAFunction)
  ELSE Return([positive |-> FilterBoolean(pairPositive(locked)),
               negative |-> Dedupe(FilterBoolean(pairNegative(locked)))])

getDriftNegatives(identity, maxNegatives) ==
  IF Throws(buildLockedIdentityPromptPair(hydrateIdentity(identity)))
  THEN buildLockedIdentityPromptPair(hydrateIdentity(identity))
  ELSE Return(Slice(buildLockedIdentityPromptPair(hydrateIdentity(identity)).value.negative,
                    maxNegatives))

-----------------------------------------------------------------------------
(* utils/promptGenerators.ts: buildIdentityLock and getIdentityNegatives *)

geoParts(geo) ==
  When(geo.faceShape # "", geo.faceShape \o " face")
    \o When(geo.eyeShape # "", geo.eyeShape \o " eyes")
    \o When(geo.browStyle # "", geo.browStyle \o " brows")
    \o When(geo.noseShape # "", geo.noseShape \o " nose")
    \o When(geo.lipShape # "", geo.lipShape \o " lips")

hairParts(identity) ==
  (IF Has(identity, "hairSpecifics")
   THEN When(identity.hairSpecifics.hairLength # "", identity.hairSpecifics.hairLength)
          \o When(identity.hairSpecifics.hairWave # "", identity.hairSpecifics.hairWave)
   ELSE <<>>)
    \o When(identity.accentColor.description # "", identity.accentColor.description)

hairDesc(identity) ==
  JoinStrings(hairParts(identity), " ") \o " hair"
    \o (IF /\ Has(identity, "hairSpecifics")
           /\ identity.hairSpecifics.hairPart # ""
           /\ identity.hairSpecifics.hairPart # "none"
        THEN " parted " \o identity.hairSpecifics.hairPart ELSE "")

\* the array `parts` of buildIdentityLock
lockParts(identity) ==
  When(identity.species # "", identity.species)
    \o When(identity.estimatedAge # "", identity.estimatedAge)
    \o When(Has(identity, "faceGeometry") /\ Len(geoParts(identity.faceGeometry)) > 0,
            JoinStrings(geoParts(identity.faceGeometry), ", "))
    \o When(identity.primaryColor.description # "",
            identity.primaryColor.description \o " eyes")
    \o When(identity.secondaryColor.description # "",
            identity.secondaryColor.description \o " skin")
    \o (IF Len(hairParts(identity)) > 0 THEN <<hairDesc(identity)>>
        ELSE When(identity.texture # "", identity.texture))
    \o When(~Has(identity, "faceGeometry") /\ identity.structure # "", identity.structure)
    \o When(Len(identity.distinguishingFeatures) > 0,
            JoinStrings(Slice(identity.distinguishingFeatures, 3), ", "))
    \o When(identity.fixedSeed # "", "\"" \o identity.fixedSeed \o "\"")

buildIdentityLock(identity) ==
  IF Len(lockParts(identity)) > 0
  THEN "[IDENTITY: " \o JoinStrings(lockParts(identity), ", ") \o "]"
  ELSE ""

\* identity.identityNegatives?.slice(0, 5) || []
userNegs(identity) ==
  IF Has(identity, "identityNegatives") THEN Slice(identity.identityNegatives, 5) ELSE <<>>

\* getIdentityNegatives for a defined identity
identityNegativesOf(identity, driftNegs) ==
  IF Throws(driftNegs) THEN driftNegs
  ELSE Return(Slice(Dedupe(userNegs(identity) \o driftNegs.value), 12))

\* subject.identity is read from the subject: undefined when the key is missing
getIdentityNegatives(subject) ==
  IF ~Has(subject, "identity") THEN Return(<<>>)
  ELSE identityNegativesOf(subject.identity,
                           getDriftNegatives(subject.identity, 10))

-----------------------------------------------------------------------------
(* Inputs of the identity functions: SubjectIdentity values as the         *)
(* normalizer or the character library hand them over                      *)

ColorOf(description) == [description |-> description, hex |-> "#8A2BE2"]

BaseIdentity ==
  [primaryColor |-> ColorOf("violet"),
   secondaryColor |-> ColorOf("porcelain"),
   accentColor |-> ColorOf("black"),
   texture |-> "silky",
   structure |-> "petite",
   distinguishingFeatures |-> <<"scar", "tattoo">>,
   estimatedAge |-> "mid-20s",
   species |-> "human",
   fixedSeed |-> "moonlit wanderer"]

EmptyIdentity ==
  [primaryColor |-> ColorOf(""),
   secondaryColor |-> ColorOf(""),
   accentColor |-> ColorOf(""),
   texture |-> "",
   structure |-> "",
   distinguishingFeatures |-> <<>>,
   estimatedAge |-> "",
   species |-> "",
   fixedSeed |-> ""]

FaceGeometries ==
  { [faceShape |-> "oval", eyeShape |-> "almond", browStyle |-> "",
     noseShape |-> "", lipShape |-> "full"],
    [faceShape |-> "", eyeShape |-> "", browStyle |-> "constructor",
     noseShape |-> "", lipShape |-> ""] }

HairSpecificsSamples ==
  { [hairLength |-> "cropped", hairWave |-> "wavy", hairPart |-> "left"],
    [hairLength |-> "", hairWave |-> "", hairPart |-> "none"],
    [hairLength |-> "long", hairWave |-> "", hairPart |-> ""],
    [hairLength |-> "", hairWave |-> "", hairPart |-> "left"] }

NegativeLists ==
  { <<>>,
    <<"freckles", "glasses">>,
    <<"", "freckles", "freckles", "purple">>,
    <<"n1", "n2", "n3", "n4", "n5", "n6", "n7", "n8">> }

SampleConfidence ==
  [overall |-> 9, primaryColor |-> 10, secondaryColor |-> 0, accentColor |-> 5,
   faceGeometry |-> 0, hairSpecifics |-> 0]

\* the string properties of an identity, each set to a value
FieldVariants(b, v) ==
  { [b EXCEPT !.primaryColor.description = v],
    [b EXCEPT !.secondaryColor.description = v],
    [b EXCEPT !.accentColor.description = v],
    [b EXCEPT !.texture = v],
    [b EXCEPT !.structure = v],
    [b EXCEPT !.estimatedAge = v],
    [b EXCEPT !.species = v],
    [b EXCEPT !.fixedSeed = v] }

RequiredIdentities ==
  {BaseIdentity, EmptyIdentity,
   [BaseIdentity EXCEPT !.distinguishingFeatures = <<>>],
   [BaseIdentity EXCEPT !.distinguishingFeatures = <<"scar", "tattoo", "mole", "limp">>],
   [BaseIdentity EXCEPT !.texture = "", !.structure = ""],
   [EmptyIdentity EXCEPT !.texture = "curly"],
   [EmptyIdentity EXCEPT !.structure = "athletic"]}
    \cup FieldVariants(BaseIdentity, "")
    \cup FieldVariants(BaseIdentity, "constructor")

WithFaces(ids) ==
  ids \cup {WithKey(b, "faceGeometry", g) : b \in ids, g \in FaceGeometries}

WithHairs(ids) ==
  ids \cup {WithKey(b, "hairSpecifics", h) : b \in ids, h \in HairSpecificsSamples}

WithNegatives(ids) ==
  ids \cup {WithKey(b, "identityNegatives", n) : b \in ids, n \in NegativeLists}

Identities ==
  WithNegatives(WithHairs(WithFaces(RequiredIdentities)))
    \cup {WithKey(BaseIdentity, "confidence", SampleConfidence)}

-----------------------------------------------------------------------------
(* The identity functions as a state machine: one call on one identity *)

IdentityInit ==
  /\ input \in [identity : Identities]
  /\ callFn = ""
  /\ callPc = "ready"
  /\ callOut = NotCalled
  /\ NormIdle
  /\ RemoteIdle
  /\ DriftIdle

Called(fn, out) ==
  /\ callPc = "ready"
  /\ callFn' = fn
  /\ callOut' = out
  /\ callPc' = "done"
  /\ UNCHANGED <<input, normVars, remoteVars, driftVars>>

HydrateIdentity == Called("hydrateIdentity", Return(hydrateIdentity(input.identity)))

BuildLockedIdentityPromptPair ==
  Called("buildLockedIdentityPromptPair",
         buildLockedIdentityPromptPair(hydrateIdentity(input.identity)))

BuildIdentityLock == Called("buildIdentityLock", Return(buildIdentityLock(input.identity)))

GetIdentityNegatives == Called("getIdentityNegatives", getIdentityNegatives(input))

IdentityNext ==
  \/ HydrateIdentity
  \/ BuildLockedIdentityPromptPair
  \/ BuildIdentityLock
  \/ GetIdentityNegatives

SpecIdentity == IdentityInit /\ [][IdentityNext]_vars

-----------------------------------------------------------------------------
(* Claims about the identity functions *)

Did(fn) == callPc = "done" /\ callFn = fn

LockedAs(l, v, cat) == l.is = v /\ l.not = inferNegatives(cat, v)

FaceLockedAs(l, geo) ==
  /\ LockedAs(l.faceShape, geo.faceShape, "faceShape")
  /\ LockedAs(l.eyeShape, geo.eyeShape, "eyeShape")
  /\ LockedAs(l.browStyle, geo.browStyle, "browStyle")
  /\ LockedAs(l.noseShape, geo.noseShape, "noseShape")
  /\ LockedAs(l.lipShape, geo.lipShape, "lipShape")

HairLockedAs(l, hair) ==
  /\ LockedAs(l.hairLength, hair.hairLength, "hairLength")
  /\ LockedAs(l.hairWave, hair.hairWave, "hairWave")
  /\ LockedAs(l.hairPart, hair.hairPart, "hairPart")

ColorLockedAs(l, color, cat) ==
  l.is = color /\ l.not = inferNegatives(cat, color.description)

\* every `not` of a locked identity
AllNots(l) ==
  {l.primaryColor.not, l.secondaryColor.not, l.accentColor.not, l.texture.not,
   l.structure.not}
    \cup (IF Has(l, "faceGeometry")
          THEN {l.faceGeometry[k].not : k \in DOMAIN l.faceGeometry} ELSE {})
    \cup (IF Has(l, "hairSpecifics")
          THEN {l.hairSpecifics[k].not : k \in DOMAIN l.hairSpecifics} ELSE {})

SameOptional(l, identity, k) ==
  Has(l, k) = Has(identity, k) /\ (Has(identity, k) => l[k] = identity[k])

HydratedFrom(l, identity) ==
  /\ ColorLockedAs(l.primaryColor, identity.primaryColor, "eyeColor")
  /\ ColorLockedAs(l.secondaryColor, identity.secondaryColor, "skinTone")
  /\ ColorLockedAs(l.accentColor, identity.accentColor, "hairColor")
  /\ LockedAs(l.texture, identity.texture, "texture")
  /\ LockedAs(l.structure, identity.structure, "structure")
  /\ Has(l, "faceGeometry") = Has(identity, "faceGeometry")
  /\ Has(identity, "faceGeometry") => FaceLockedAs(l.faceGeometry, identity.faceGeometry)
  /\ Has(l, "hairSpecifics") = Has(identity, "hairSpecifics")
  /\ Has(identity, "hairSpecifics") => HairLockedAs(l.hairSpecifics, identity.hairSpecifics)
  /\ l.species = identity.species
  /\ l.estimatedAge = identity.estimatedAge
  /\ l.fixedSeed = identity.fixedSeed
  /\ l.distinguishingFeatures = identity.distinguishingFeatures
  /\ SameOptional(l, identity, "identityNegatives")
  /\ SameOptional(l, identity, "confidence")

\* C11: hydrateIdentity wraps every lockable attribute as {is, not} with
\* `is` the input value and `not` the drift negatives of the attribute's
\* category, every `not` has exactly 3 entries, the other fields are copied
\* unchanged, and faceGeometry / hairSpecifics are absent in the result
\* exactly when they are absent in the input.
C11_HydrateLocksEveryAttributeWithATriple ==
  Did("hydrateIdentity") =>
    /\ callOut.completion = "return"
    /\ HydratedFrom(callOut.value, input.identity)
    /\ \A n \in AllNots(callOut.value) : IsStringTriple(n)

NoDuplicates(seq) == \A i, j \in 1..Len(seq) : seq[i] = seq[j] => i = j

\* identity.identityNegatives, empty when the property is missing
UserAuthored(identity) ==
  IF Has(identity, "identityNegatives") THEN identity.identityNegatives ELSE <<>>

\* the strings of every `not` array of the hydrated identity
DriftInferred(identity) ==
  UNION {{n.items[i].s : i \in 1..Len(n.items)} :
           n \in {m \in AllNots(hydrateIdentity(identity)) : m.t = "array"}}

\* C12: the identity negative list injected into either prompt format has
\* no duplicates and at most 12 entries: at most 5 user-authored negatives
\* first, in their given order, followed by at most 7 drift-inferred ones.
C12_FiveUserThenSevenDrift ==
  Did("getIdentityNegatives") =>
    /\ callOut.completion = "return"
    /\ NoDuplicates(callOut.value)
    /\ Len(callOut.value) <= 12
    /\ \E k \in 0..Min(5, Len(callOut.value)) :
         /\ SubSeq(callOut.value, 1, k) =
              Slice(Dedupe(Slice(UserAuthored(input.identity), 5)), k)
         /\ Len(callOut.value) - k <= 7
         /\ \A i \in (k + 1)..Len(callOut.value) :
              callOut.value[i] \in DriftInferred(input.identity)

\* the clause buildIdentityLock would print for a list of phrases
IdentityClause(phrases) ==
  IF Len(phrases) > 0 THEN "[IDENTITY: " \o JoinStrings(phrases, ", ") \o "]" ELSE ""

\* C13: for every SubjectIdentity the phrases inside the [IDENTITY: ...]
\* clause built by buildIdentityLock are the phrases, in the same order, of
\* buildLockedIdentityPromptPair(hydrateIdentity(identity)).positive.
C13_LockClauseEqualsLockedPositive ==
  Did("buildIdentityLock") =>
    /\ ~Throws(buildLockedIdentityPromptPair(hydrateIdentity(input.identity)))
    /\ callOut.value =
         IdentityClause(
           buildLockedIdentityPromptPair(hydrateIdentity(input.identity)).value.positive)

-----------------------------------------------------------------------------
(* normalizeString and normalizeArray as a state machine: one call on one  *)
(* value of any type                                                       *)

StringInputs ==
  {Str(s) : s \in {"", " ", " \t ", "None", "none", "NONE", "none ", " None", "null",
                   "undefined", "0", "false", "test", "hello world", "[object Object]"}}

ScalarInputs ==
  {Null, Undefined, Num(0), Num(10), Num(-50), Num(5), Num(420), Bool(TRUE), Bool(FALSE),
   Obj(NoFields), Obj([description |-> Str("violet")]), Obj([length |-> Num(10)])}

ArrayItems ==
  {Null, Undefined, Str("a"), Str(""), Str("None"), Str("none"), Num(10), Num(5),
   Bool(FALSE), Obj(NoFields), Arr(<<>>), Arr(<<Null>>), Arr(<<Str("None")>>),
   Arr(<<Str("none")>>), Arr(<<Str("a"), Str("b")>>), Arr(<<Arr(<<Str("None")>>)>>)}

ArrayInputs ==
  {Arr(<<>>), Arr(<<Str("a"), Str("b"), Str("c")>>),
   Arr(<<Str("a"), Str("None"), Str("b"), Str("none"), Null, Str("c")>>),
   Arr(<<Num(10), Str("two"), Num(30)>>),
   Arr(<<Str("b"), Str("a"), Str("b")>>)}
    \cup {Arr(<<x>>) : x \in ArrayItems}
    \cup {Arr(<<Str("first"), x, Str("last")>>) : x \in ArrayItems}

ValueInputs == StringInputs \cup ScalarInputs \cup ArrayInputs

ValuesInit ==
  /\ input \in [val : ValueInputs]
  /\ callFn = ""
  /\ callPc = "ready"
  /\ callOut = NotCalled
  /\ NormIdle
  /\ RemoteIdle
  /\ DriftIdle

NormalizeString == Called("normalizeString", Return(normalizeString(input.val)))

NormalizeArray == Called("normalizeArray", Return(normalizeArray(input.val)))

ValuesNext == NormalizeString \/ NormalizeArray

SpecValues == ValuesInit /\ [][ValuesNext]_vars

-----------------------------------------------------------------------------
(* Claims about normalizeString and normalizeArray *)

Sentinel(v) == v = Null \/ v = Str("None") \/ v = Str("none")

\* the items that are not sentinels, in their order, each as String(item)
RECURSIVE Survivors(_)
Survivors(items) ==
  IF Len(items) = 0 THEN <<>>
  ELSE (IF Sentinel(Head(items)) THEN <<>> ELSE <<ToStr(Head(items))>>)
         \o Survivors(Tail(items))

\* C15: normalizeArray returns [] for every non-array input, and for every
\* array input, with elements of any type, the surviving elements in their
\* original order coerced to strings, and no element of the result is null,
\* "None" or "none".
C15_ArrayOfStringsWithoutSentinels ==
  Did("normalizeArray") =>
    /\ callOut.completion = "return"
    /\ input.val.t # "array" => callOut.value = <<>>
    /\ input.val.t = "array" => callOut.value = Survivors(input.val.items)
    /\ \A i \in 1..Len(callOut.value) :
         callOut.value[i] \in STRING /\ callOut.value[i] \notin {"None", "none"}

\* C16: normalizeString returns "" for null, undefined, "None", "none" and
\* every non-string value (never its string representation), and returns
\* every other string unchanged, including "" and whitespace-only strings.
C16_StringOrEmpty ==
  Did("normalizeString") =>
    callOut = Return(IF input.val.t = "string" /\ input.val.s \notin {"None", "none"}
                     THEN input.val.s ELSE "")

\* a number, a boolean and an object came back as "", and a whitespace-only
\* string came back unchanged
C16_Witness ==
  /\ Did("normalizeString")
  /\ input.val \in {Num(420), Bool(TRUE), Obj(NoFields), Str(" \t ")}
  /\ callOut = Return(IF input.val.t = "string" THEN " \t " ELSE "")

-----------------------------------------------------------------------------
(* Normalizing a normalized record: the output of normalizeMetadata handed  *)
(* back to normalizeMetadata as raw input                                  *)

\* an array of strings as a raw value
AsRawStrings(seq) == Arr([i \in 1..Len(seq) |-> Str(seq[i])])

\* an object of strings and arrays of strings as a raw value
AsRawSection(r) ==
  Obj([k \in DOMAIN r |->
         IF k \in {"elements", "colors", "textures", "accents"}
         THEN AsRawStrings(r[k]) ELSE Str(r[k])])

AsRawIdentity(i) ==
  Obj([k \in DOMAIN i |->
         CASE k \in {"primaryColor", "secondaryColor", "accentColor", "faceGeometry",
                     "hairSpecifics"} -> AsRawSection(i[k])
           [] k \in {"distinguishingFeatures", "identityNegatives"} -> AsRawStrings(i[k])
           [] k = "confidence" -> Obj([c \in DOMAIN i[k] |-> Num(i[k][c])])
           [] OTHER -> Str(i[k])])

AsRawSubject(s) ==
  Obj([k \in DOMAIN s |-> IF k = "identity" THEN AsRawIdentity(s[k]) ELSE Str(s[k])])

\* an ImageMetadata record as the raw value a caller passes
AsRawMetadata(m) ==
  Obj([k \in DOMAIN m |->
         CASE k = "negative" -> Str(m[k])
           [] k = "subject" -> AsRawSubject(m[k])
           [] OTHER -> AsRawSection(m[k])])

\* raw metadata whose array fields hold elements that are not strings
NestedArrayRaws ==
  {With(ValidRaw, "scene",
        Obj([setting |-> Str("battlefield"), atmosphere |-> Str("tense"),
             elements |-> Arr(<<Str("first"), x, Str("last")>>)])) : x \in ArrayItems}
    \cup {With(ValidRaw, "subject",
               With(ValidSubject, "identity",
                    With(ValidIdentity, "distinguishingFeatures", Arr(<<x>>)))) :
            x \in ArrayItems}

IdemInputs == RawInputs \cup NestedArrayRaws

IdemInit ==
  /\ input \in [raw : IdemInputs]
  /\ callFn = ""
  /\ callPc = "ready"
  /\ callOut = NotCalled
  /\ NormIdle
  /\ RemoteIdle
  /\ DriftIdle

NormalizeRaw == Called("normalizeMetadata", normalizeMetadata(input.raw))

NormalizeRawGuarded == Called("normalizeMetadataGuarded", normalizeMetadataGuarded(input.raw))

\* the same copy of normalizeMetadata, called on its own output
NormalizeOutput ==
  /\ callPc = "done"
  /\ ~Throws(callOut)
  /\ input' = [raw |-> AsRawMetadata(callOut.value)]
  /\ callOut' = IF callFn = "normalizeMetadata"
                THEN normalizeMetadata(AsRawMetadata(callOut.value))
                ELSE normalizeMetadataGuarded(AsRawMetadata(callOut.value))
  /\ callPc' = "renormalized"
  /\ UNCHANGED <<callFn, normVars, remoteVars, driftVars>>

IdemNext == NormalizeRaw \/ NormalizeRawGuarded \/ NormalizeOutput

SpecIdem == IdemInit /\ [][IdemNext]_vars

\* C14: every output of normalizeMetadata is a fixed point of normalization:
\* normalizing it again returns it field by field, array fields whose raw
\* elements were not strings and the nested identity included.
C14_NormalizedIsFixedPoint ==
  callPc = "renormalized" =>
    /\ callOut.completion = "return"
    /\ AsRawMetadata(callOut.value) = input.raw

-----------------------------------------------------------------------------
(* utils/colorUtils.ts *)

BASE_COLORS ==
  << <<"red", 255, 0, 0>>, <<"orange", 255, 165, 0>>, <<"yellow", 255, 255, 0>>,
     <<"green", 0, 128, 0>>, <<"cyan", 0, 255, 255>>, <<"blue", 0, 0, 255>>,
     <<"indigo", 75, 0, 130>>, <<"purple", 128, 0, 128>>, <<"pink", 255, 192, 203>>,
     <<"brown", 139, 69, 19>>, <<"gray", 128, 128, 128>>, <<"black", 0, 0, 0>>,
     <<"white", 255, 255, 255>>, <<"gold", 255, 215, 0>>, <<"silver", 192, 192, 192>>,
     <<"bronze", 205, 127, 50>>, <<"amber", 255, 191, 0>>, <<"teal", 0, 128, 128>>,
     <<"navy", 0, 0, 128>>, <<"maroon", 128, 0, 0>>, <<"olive", 128, 128, 0>>,
     <<"coral", 255, 127, 80>>, <<"azure", 0, 127, 255>> >>

HexDigits == "0123456789abcdef"

IsHexDigit(c) == Len(c) = 1 /\ Includes(HexDigits, ToLowerCase(c))

HexValue(c) == (CHOOSE d \in 1..16 : CharAt(HexDigits, d) = ToLowerCase(c)) - 1

\* parseInt(pair, 16) for a string of two characters: leading white space and
\* a sign are skipped, a 0x prefix leaves nothing to parse, and parsing stops
\* at the first character that is not a hex digit
parseHexPair(pair) ==
  LET c1 == CharAt(pair, 1)
      c2 == CharAt(pair, 2)
  IN IF IsHexDigit(c1)
     THEN IF IsHexDigit(c2) THEN Finite(16 * HexValue(c1) + HexValue(c2))
          ELSE IF c1 = "0" /\ c2 \in {"x", "X"} THEN NaN
          ELSE Finite(HexValue(c1))
     ELSE IF c1 \in WhiteSpace \cup {"+"} /\ IsHexDigit(c2) THEN Finite(HexValue(c2))
     ELSE IF c1 = "-" /\ IsHexDigit(c2) THEN Finite(0 - HexValue(c2))
     ELSE NaN

NoRgb == [defined |-> FALSE, r |-> 0, g |-> 0, b |-> 0]

\* the six characters after the optional # and the doubling of a 3-digit form
fullHex(hex) ==
  LET cleanHex == IF Len(hex) > 0 /\ CharAt(hex, 1) = "#" THEN Tail(hex) ELSE hex
  IN IF Len(cleanHex) = 3
     THEN CharAt(cleanHex, 1) \o CharAt(cleanHex, 1) \o CharAt(cleanHex, 2)
            \o CharAt(cleanHex, 2) \o CharAt(cleanHex, 3) \o CharAt(cleanHex, 3)
     ELSE cleanHex

rgbOf(full) ==
  IF Len(full) # 6 THEN NoRgb
  ELSE IF parseHexPair(SubSeq(full, 1, 2)).nan \/ parseHexPair(SubSeq(full, 3, 4)).nan
          \/ parseHexPair(SubSeq(full, 5, 6)).nan
  THEN NoRgb
  ELSE [defined |-> TRUE, r |-> parseHexPair(SubSeq(full, 1, 2)).n,
        g |-> parseHexPair(SubSeq(full, 3, 4)).n,
        b |-> parseHexPair(SubSeq(full, 5, 6)).n]

hexToRgb(hex) == rgbOf(fullHex(hex))

\* the square of colorDistance: the order of the distances is the order of
\* their squares
colorDistance2(rgb, base) ==
  (rgb.r - base[2]) * (rgb.r - base[2]) + (rgb.g - base[3]) * (rgb.g - base[3])
    + (rgb.b - base[4]) * (rgb.b - base[4])

\* 1000 * getLuminance
getLuminance1000(rgb) == 299 * rgb.r + 587 * rgb.g + 114 * rgb.b

modifierOf(rgb) ==
  IF ~rgb.defined THEN ""
  ELSE IF getLuminance1000(rgb) > 180000 THEN "light"
  ELSE IF getLuminance1000(rgb) < 80000 THEN "dark"
  ELSE ""

getColorModifier(hex) == modifierOf(hexToRgb(hex))

\* the first base color at the least distance
closestColor(rgb) ==
  BASE_COLORS[CHOOSE i \in 1..Len(BASE_COLORS) :
                /\ \A j \in 1..Len(BASE_COLORS) :
                     colorDistance2(rgb, BASE_COLORS[i]) <= colorDistance2(rgb, BASE_COLORS[j])
                /\ \A j \in 1..(i - 1) :
                     colorDistance2(rgb, BASE_COLORS[j]) > colorDistance2(rgb, BASE_COLORS[i])]

nameOf(rgb) == IF ~rgb.defined THEN "unknown" ELSE closestColor(rgb)[1]

hexToSimpleColorName(hex) == nameOf(hexToRgb(hex))

withModifier(colorName, modifier) ==
  IF colorName = "black" \/ colorName = "white" THEN colorName
  ELSE IF modifier # "" THEN modifier \o " " \o colorName
  ELSE colorName

formatColorWithModifier(hex) == withModifier(hexToSimpleColorName(hex), getColorModifier(hex))

paletteOf(color1, color2) ==
  IF color1 = color2 THEN color1 ELSE color1 \o " and " \o color2

formatColorPalette(colors) ==
  IF Len(colors) = 0 THEN ""
  ELSE IF Len(colors) = 1 THEN formatColorWithModifier(colors[1])
  ELSE paletteOf(formatColorWithModifier(colors[1]), formatColorWithModifier(colors[2]))

-----------------------------------------------------------------------------
(* utils/promptGenerators.ts: generateSDMJPrompt and generateUniversalPrompt *)

DEFAULT_SDMJ_SECTIONS ==
  [subject |-> TRUE, styleAnchor |-> TRUE, colorPalette |-> TRUE,
   secondaryStyles |-> TRUE, technical |-> TRUE, negative |-> TRUE]

DEFAULT_UNIVERSAL_SECTIONS ==
  [meta |-> TRUE, subject |-> TRUE, scene |-> TRUE, technical |-> TRUE,
   palette |-> TRUE, details |-> TRUE, textContent |-> FALSE, negative |-> TRUE]

\* options?.sdmjSections ?? DEFAULT_SDMJ_SECTIONS
sdmjSectionsOf(options) ==
  IF Has(options, "sdmjSections") THEN options.sdmjSections ELSE DEFAULT_SDMJ_SECTIONS

\* options?.universalSections ?? DEFAULT_UNIVERSAL_SECTIONS
universalSectionsOf(options) ==
  IF Has(options, "universalSections") THEN options.universalSections
  ELSE DEFAULT_UNIVERSAL_SECTIONS

\* if (sections.flag): a flag the object does not set reads as undefined
Flag(sections, flag) == Has(sections, flag) /\ sections[flag]

\* the identity lock of the subject, when there is one to push
identityLockOf(subject) ==
  IF Has(subject, "identity")
  THEN When(buildIdentityLock(subject.identity) # "", buildIdentityLock(subject.identity))
  ELSE <<>>

subjectParts(data) ==
  When(data.subject.archetype # "", data.subject.archetype)
    \o identityLockOf(data.subject)
    \o When(data.subject.description # "", data.subject.description)
    \o When(data.subject.pose # "", data.subject.pose)
    \o When(data.subject.attire # "", data.subject.attire)
    \o When(data.scene.setting # "", "in " \o data.scene.setting)

\* SLOT 1
subjectSlot(data, sections) ==
  When(Flag(sections, "subject") /\ Len(subjectParts(data)) > 0,
       JoinStrings(subjectParts(data), " "))

\* mutant: the style anchor is pushed twice
styleAnchorSlotTwice(data, sections) ==
  IF Flag(sections, "styleAnchor") /\ data.technical.render # ""
  THEN <<"in the style of " \o data.technical.render,
         "in the style of " \o data.technical.render>>
  ELSE <<>>

\* SLOT 2
styleAnchorSlot(data, sections) ==
  When(Flag(sections, "styleAnchor") /\ data.technical.render # "",
       "in the style of " \o data.technical.render)

\* SLOT 3
colorPaletteSlot(data, sections) ==
  IF Flag(sections, "colorPalette") /\ Len(data.palette.colors) >= 2
  THEN When(formatColorPalette(data.palette.colors) # "",
            formatColorPalette(data.palette.colors))
  ELSE <<>>

secondaries(data) ==
  Slice(data.details.textures, 2)
    \o When(data.scene.atmosphere # "", data.scene.atmosphere)
    \o When(data.palette.mood # "", data.palette.mood)
    \o Slice(data.details.accents, 1)

\* SLOTS 4-6
secondarySlots(data, sections) ==
  IF Flag(sections, "secondaryStyles") THEN Slice(secondaries(data), 3) ELSE <<>>

\* SLOTS 7+
technicalSlots(data, sections) ==
  IF Flag(sections, "technical")
  THEN When(data.technical.shot # "", data.technical.shot)
         \o When(data.technical.lens # "", data.technical.lens)
  ELSE <<>>

\* the array `parts` of generateSDMJPrompt
sdmjParts(data, sections) ==
  subjectSlot(data, sections) \o styleAnchorSlot(data, sections)
    \o colorPaletteSlot(data, sections) \o secondarySlots(data, sections)
    \o technicalSlots(data, sections)

\* parts.slice(0, 8).filter(Boolean)
sdmjSegments(data, sections) == FilterBoolean(Slice(sdmjParts(data, sections), 8))

\* the prompt before the negative section
sdmjBody(data, sections) ==
  ToLowerCase(JoinStrings(sdmjSegments(data, sections), ", "))
    \o (IF data.meta.aspect_ratio # "" THEN " --ar " \o data.meta.aspect_ratio ELSE "")

\* s.split(','), reading s after the term collected so far
RECURSIVE SplitCommas(_, _)
SplitCommas(s, term) ==
  IF Len(s) = 0 THEN <<term>>
  ELSE IF CharAt(s, 1) = "," THEN <<term>> \o SplitCommas(Tail(s), "")
  ELSE SplitCommas(Tail(s), term \o CharAt(s, 1))

\* data.negative.split(',').map(t => t.trim()).filter(Boolean), [] for ''
negativeTerms(negative) ==
  IF negative = "" THEN <<>>
  ELSE FilterBoolean([i \in 1..Len(SplitCommas(negative, "")) |->
                        trim(SplitCommas(negative, "")[i])])

noBlock(negParts) ==
  IF Len(negParts) > 0 THEN " --no " \o JoinStrings(Slice(Dedupe(negParts), 8), ", ")
  ELSE ""

sdmjNegative(prompt, terms, identityNegs) ==
  IF Throws(identityNegs) THEN identityNegs
  ELSE Return(prompt \o noBlock(terms \o identityNegs.value))

sdmjPrompt(data, sections) ==
  IF Flag(sections, "negative")
  THEN sdmjNegative(sdmjBody(data, sections), negativeTerms(data.negative),
                    getIdentityNegatives(data.subject))
  ELSE Return(sdmjBody(data, sections))

generateSDMJPrompt(data, options) == sdmjPrompt(data, sdmjSectionsOf(options))

universalMeta(data, sections) ==
  IF Flag(sections, "meta")
  THEN When(data.meta.intent # "", data.meta.intent)
         \o When(data.meta.quality # "", data.meta.quality)
  ELSE <<>>

universalSubject(data, sections) ==
  IF Flag(sections, "subject")
  THEN When(data.subject.archetype # "", data.subject.archetype)
         \o When(data.subject.description # "", data.subject.description)
         \o When(data.subject.expression # "", data.subject.expression)
         \o When(data.subject.pose # "", data.subject.pose)
         \o When(data.subject.attire # "", data.subject.attire)
         \o identityLockOf(data.subject)
  ELSE <<>>

universalScene(data, sections) ==
  IF Flag(sections, "scene")
  THEN When(data.scene.setting # "", data.scene.setting)
         \o When(Len(data.scene.elements) > 0, JoinStrings(data.scene.elements, ", "))
         \o When(data.scene.atmosphere # "", data.scene.atmosphere)
  ELSE <<>>

universalTechnical(data, sections) ==
  IF Flag(sections, "technical")
  THEN When(data.technical.shot # "", data.technical.shot)
         \o When(data.technical.lens # "", "shot with " \o data.technical.lens)
         \o When(data.technical.lighting # "", data.technical.lighting)
         \o When(data.technical.render # "", data.technical.render)
  ELSE <<>>

universalPalette(data, sections) ==
  IF Flag(sections, "palette")
  THEN When(data.palette.mood # "", data.palette.mood)
         \o When(Len(data.palette.colors) > 0,
                 "color palette: "
                   \o JoinStrings([i \in 1..Len(data.palette.colors) |->
                                     formatColorWithModifier(data.palette.colors[i])], ", "))
  ELSE <<>>

universalDetails(data, sections) ==
  IF Flag(sections, "details")
  THEN When(Len(data.details.textures) > 0, JoinStrings(data.details.textures, ", "))
         \o When(Len(data.details.accents) > 0, JoinStrings(data.details.accents, ", "))
  ELSE <<>>

universalTextContent(data, sections) ==
  When(/\ Flag(sections, "textContent")
       /\ data.text_content.overlay # ""
       /\ data.text_content.overlay # "None",
       "text: \"" \o data.text_content.overlay \o "\""
         \o (IF data.text_content.style # ""
             THEN " in " \o data.text_content.style \o " font" ELSE ""))

\* the array `parts` of generateUniversalPrompt
universalParts(data, sections) ==
  universalMeta(data, sections) \o universalSubject(data, sections)
    \o universalScene(data, sections) \o universalTechnical(data, sections)
    \o universalPalette(data, sections) \o universalDetails(data, sections)
    \o universalTextContent(data, sections)

negBlock(negParts) ==
  IF Len(negParts) > 0 THEN "\n\n--neg " \o JoinStrings(negParts, ", ") ELSE ""

universalNegative(prompt, negative, identityNegs) ==
  IF Throws(identityNegs) THEN identityNegs
  ELSE Return(prompt \o negBlock(When(negative # "", negative)
                                   \o When(Len(identityNegs.value) > 0,
                                           JoinStrings(identityNegs.value, ", "))))

universalPrompt(data, sections) ==
  IF Flag(sections, "negative")
  THEN universalNegative(JoinStrings(FilterBoolean(universalParts(data, sections)), ", "),
                         data.negative, getIdentityNegatives(data.subject))
  ELSE Return(JoinStrings(FilterBoolean(universalParts(data, sections)), ", "))

generateUniversalPrompt(data, options) == universalPrompt(data, universalSectionsOf(options))

-----------------------------------------------------------------------------
(* Inputs of the prompt generators: normalized metadata and export options *)

CompleteData ==
  [meta |-> [intent |-> "cinematic portrait", aspect_ratio |-> "16:9",
             quality |-> "masterpiece, best quality"],
   subject |-> [archetype |-> "mysterious wanderer",
                description |-> "weathered face with deep eyes",
                expression |-> "contemplative", pose |-> "standing",
                attire |-> "tattered cloak"],
   scene |-> [setting |-> "ancient ruins at sunset", atmosphere |-> "ethereal",
              elements |-> <<"crumbling pillars", "scattered leaves", "distant mountains">>],
   technical |-> [shot |-> "medium close-up", lens |-> "85mm f/1.4",
                  lighting |-> "golden hour", render |-> "Photorealistic"],
   palette |-> [colors |-> <<"#8B4513", "#FFD700", "#2F4F4F">>, mood |-> "warm and dramatic"],
   details |-> [textures |-> <<"weathered leather", "rough stone", "moss">>,
                accents |-> <<"glowing runes", "dust particles">>],
   negative |-> "blurry, low quality, cartoon, anime",
   text_content |-> [overlay |-> "", style |-> ""]]

EmptyData ==
  [meta |-> [intent |-> "", aspect_ratio |-> "", quality |-> ""],
   subject |-> [archetype |-> "", description |-> "", expression |-> "", pose |-> "",
                attire |-> ""],
   scene |-> [setting |-> "", atmosphere |-> "", elements |-> <<>>],
   technical |-> [shot |-> "", lens |-> "", lighting |-> "", render |-> ""],
   palette |-> [colors |-> <<>>, mood |-> ""],
   details |-> [textures |-> <<>>, accents |-> <<>>],
   negative |-> "",
   text_content |-> [overlay |-> "", style |-> ""]]

\* metadata that differs from the complete sample in one section
SectionVariants ==
  { [CompleteData EXCEPT !.technical.render = ""],
    [CompleteData EXCEPT !.technical.render = "oil painting"],
    [CompleteData EXCEPT !.technical.shot = "", !.technical.lens = ""],
    [CompleteData EXCEPT !.subject = EmptyData.subject, !.scene.setting = ""],
    [CompleteData EXCEPT !.subject = EmptyData.subject],
    [CompleteData EXCEPT !.subject.description = "tall, dark, scarred"],
    [CompleteData EXCEPT !.meta.aspect_ratio = ""],
    [CompleteData EXCEPT !.palette.colors = <<>>],
    [CompleteData EXCEPT !.palette.colors = <<"#fff">>],
    [CompleteData EXCEPT !.palette.colors = <<"#000080", "#00007f">>],
    [CompleteData EXCEPT !.palette.colors = <<"not a color", "#0x1234">>],
    [CompleteData EXCEPT !.palette.mood = "", !.scene.atmosphere = ""],
    [CompleteData EXCEPT !.details.textures = <<>>, !.details.accents = <<>>],
    [CompleteData EXCEPT !.details.textures = <<"", "rough stone">>],
    [CompleteData EXCEPT !.text_content = [overlay |-> "TITLE", style |-> "bold"]],
    [CompleteData EXCEPT !.text_content = [overlay |-> "None", style |-> ""]],
    [EmptyData EXCEPT !.technical.render = "Watercolor"],
    [EmptyData EXCEPT !.subject.archetype = "Warrior", !.meta.intent = "portrait"] }

NegativeStrings ==
  {"", "blurry", " , ,", "a, b,a ,, c,d,e,f,g,h,i", "purple, freckles, tan"}

PromptIdentities ==
  { BaseIdentity,
    EmptyIdentity,
    WithKey(BaseIdentity, "identityNegatives", <<"freckles", "glasses">>),
    WithKey(WithKey(BaseIdentity, "faceGeometry",
                    [faceShape |-> "oval", eyeShape |-> "almond", browStyle |-> "",
                     noseShape |-> "", lipShape |-> "full"]),
            "hairSpecifics",
            [hairLength |-> "cropped", hairWave |-> "wavy", hairPart |-> "left"]),
    [BaseIdentity EXCEPT !.structure = "constructor"] }

WithIdentities(ds) ==
  ds \cup {[d EXCEPT !.subject = WithKey(d.subject, "identity", i)] :
             d \in ds, i \in PromptIdentities}

WithNegativeStrings(ds) ==
  ds \cup {[d EXCEPT !.negative = n] : d \in ds, n \in NegativeStrings}

MetadataInputs ==
  SectionVariants \cup WithNegativeStrings(WithIdentities({CompleteData, EmptyData}))

SDMJFlags == DOMAIN DEFAULT_SDMJ_SECTIONS
UniversalFlags == DOMAIN DEFAULT_UNIVERSAL_SECTIONS

\* section objects that set every flag
FullSDMJSections == [SDMJFlags -> BOOLEAN]

FullUniversalSections ==
  {[f \in UniversalFlags |-> b] : b \in BOOLEAN}
    \cup {[f \in UniversalFlags |-> IF f = g THEN b ELSE ~b] :
            g \in UniversalFlags, b \in BOOLEAN}

\* section objects that set one flag only
PartialSDMJSections == {[f \in {g} |-> b] : g \in SDMJFlags, b \in BOOLEAN}

PartialUniversalSections == {[f \in {g} |-> b] : g \in UniversalFlags, b \in BOOLEAN}

ExportOptionsInputs ==
  {[format |-> "sd-mj"], [format |-> "universal"]}
    \cup {[format |-> "sd-mj", sdmjSections |-> s] :
            s \in FullSDMJSections \cup PartialSDMJSections}
    \cup {[format |-> "universal", universalSections |-> s] :
            s \in FullUniversalSections \cup PartialUniversalSections}

-----------------------------------------------------------------------------
(* The prompt generators as a state machine: one call on one metadata      *)
(* record and one options object                                           *)

PromptInit ==
  /\ input \in [data : MetadataInputs, options : ExportOptionsInputs]
  /\ callFn = ""
  /\ callPc = "ready"
  /\ callOut = NotCalled
  /\ NormIdle
  /\ RemoteIdle
  /\ DriftIdle

GenerateSDMJPrompt ==
  /\ input.options.format = "sd-mj"
  /\ Called("generateSDMJPrompt", generateSDMJPrompt(input.data, input.options))

GenerateUniversalPrompt ==
  /\ input.options.format = "universal"
  /\ Called("generateUniversalPrompt", generateUniversalPrompt(input.data, input.options))

PromptNext == GenerateSDMJPrompt \/ GenerateUniversalPrompt

SpecPrompt == PromptInit /\ [][PromptNext]_vars

-----------------------------------------------------------------------------
(* Claims about the prompt generators *)

STYLE_PREFIX == "in the style of "

HasStylePrefix(s) ==
  Len(s) >= Len(STYLE_PREFIX) /\ SubSeq(s, 1, Len(STYLE_PREFIX)) = STYLE_PREFIX

\* the sections generateSDMJPrompt works with in the current call
CallSections == sdmjSectionsOf(input.options)

\* the segments generateSDMJPrompt joins in the current call
CallSegments == sdmjSegments(input.data, CallSections)

StyleAnchorEnabled ==
  Flag(CallSections, "styleAnchor") /\ input.data.technical.render # ""

\* the segments that come from the palette, secondary-style and technical slots
LaterSegments ==
  colorPaletteSlot(input.data, CallSections) \o secondarySlots(input.data, CallSections)
    \o technicalSlots(input.data, CallSections)

\* C17: in generateSDMJPrompt, when the style-anchor section is enabled and
\* technical.render is non-empty, the segment list holds exactly one segment
\* 'in the style of <render>', right after the subject segment (second when
\* there is a subject segment, first otherwise) and before the palette,
\* secondary-style and technical segments; when render is empty or the
\* section is disabled the list holds no such segment.
C17_StyleAnchorOnceAfterSubject ==
  Did("generateSDMJPrompt") =>
    /\ StyleAnchorEnabled =>
         \E i \in 1..Len(CallSegments) :
           /\ CallSegments[i] = STYLE_PREFIX \o input.data.technical.render
           /\ \A j \in 1..Len(CallSegments) : HasStylePrefix(CallSegments[j]) => j = i
           /\ i = Len(subjectSlot(input.data, CallSections)) + 1
           /\ i = 2 => CallSegments[1] = JoinStrings(subjectParts(input.data), " ")
           /\ SubSeq(CallSegments, i + 1, Len(CallSegments)) =
                FilterBoolean(Slice(LaterSegments, 8 - i))
    /\ ~StyleAnchorEnabled =>
         \A j \in 1..Len(CallSegments) : ~HasStylePrefix(CallSegments[j])

\* the anchor is the second of at least five segments, after a subject
\* segment that holds an identity lock, and the call returned
C17_Witness ==
  /\ Did("generateSDMJPrompt")
  /\ callOut.completion = "return"
  /\ StyleAnchorEnabled
  /\ Has(input.data.subject, "identity")
  /\ Len(CallSegments) >= 5
  /\ CallSegments[2] = "in the style of Photorealistic"
  /\ Includes(callOut.value, ", in the style of photorealistic, ")

\* the text of a prompt before its first ' --' parameter
BeforeParameters(prompt) ==
  IF Includes(prompt, " --")
  THEN SubSeq(prompt, 1,
              (CHOOSE i \in 1..Len(prompt) :
                 /\ SubSeq(prompt, i, i + 2) = " --"
                 /\ \A j \in 1..(i - 1) : SubSeq(prompt, j, j + 2) # " --") - 1)
  ELSE prompt

\* the number of elements of s.split(', ')
SplitCount(s) == 1 + Cardinality({i \in 1..(Len(s) - 1) : SubSeq(s, i, i + 1) = ", "})

\* C18: for every metadata and every section configuration, the body of
\* generateSDMJPrompt's output (the text before the first ' --' parameter)
\* splits on ', ' into at most 8 elements.
C18_BodySplitsIntoAtMostEight ==
  (Did("generateSDMJPrompt") /\ callOut.completion = "return") =>
    SplitCount(BeforeParameters(callOut.value)) <= 8

\* the non-empty trimmed terms of the metadata negative
MetadataTerms == FilterBoolean([i \in 1..Len(SplitCommas(input.data.negative, "")) |->
                                  trim(SplitCommas(input.data.negative, "")[i])])

\* C19: when the negative section is enabled, generateSDMJPrompt appends
\* ' --no ' and the negative terms (the metadata negative split on commas
\* and trimmed, then the identity negatives) without exact duplicates, first
\* occurrence kept, cut to the first 8 terms; the block is there whenever a
\* term exists, also with an empty metadata negative and identity negatives
\* only, and is left out otherwise.
C19_NoBlockOfAtMostEightTerms ==
  (Did("generateSDMJPrompt") /\ Flag(CallSections, "negative")) =>
    /\ callOut.completion = "return"
    /\ ~Throws(getIdentityNegatives(input.data.subject))
    /\ LET terms == MetadataTerms \o getIdentityNegatives(input.data.subject).value
       IN callOut.value =
            sdmjBody(input.data, CallSections)
              \o (IF Len(terms) > 0
                  THEN " --no " \o JoinStrings(Slice(Dedupe(terms), 8), ", ")
                  ELSE "")

\* the section object with every flag it does not set taken from the defaults
Completed(sections, defaults) ==
  [f \in DOMAIN defaults |-> IF Has(sections, f) THEN sections[f] ELSE defaults[f]]

\* C20: every section flag the caller leaves unset takes its documented
\* default (all sections on, Universal text content off): a call whose
\* sections object sets only some flags returns what the call with the other
\* flags at their defaults returns.
C20_UnsetFlagsTakeDefaults ==
  /\ Did("generateSDMJPrompt") =>
       callOut = sdmjPrompt(input.data, Completed(CallSections, DEFAULT_SDMJ_SECTIONS))
  /\ Did("generateUniversalPrompt") =>
       callOut = universalPrompt(input.data,
                                 Completed(universalSectionsOf(input.options),
                                           DEFAULT_UNIVERSAL_SECTIONS))


-----------------------------------------------------------------------------
(* Claims about the hair phrase and the order of the locked phrases *)

HairPartAbsent(identity) ==
  Has(identity, "hairSpecifics") /\ identity.hairSpecifics.hairPart \in {"", "none"}

\* the words the hair phrase is made of: length, wave, accent description
HairWords(identity) ==
  FilterBoolean(
    (IF Has(identity, "hairSpecifics")
     THEN <<identity.hairSpecifics.hairLength, identity.hairSpecifics.hairWave>>
     ELSE <<>>) \o <<identity.accentColor.description>>)

\* <<category, value>> of every lockable attribute but the hair part
AttributesButPart(identity) ==
  {<<"eyeColor", identity.primaryColor.description>>,
   <<"skinTone", identity.secondaryColor.description>>,
   <<"hairColor", identity.accentColor.description>>,
   <<"texture", identity.texture>>,
   <<"structure", identity.structure>>}
    \cup (IF Has(identity, "faceGeometry")
          THEN {<<k, identity.faceGeometry[k]>> : k \in DOMAIN identity.faceGeometry}
          ELSE {})
    \cup (IF Has(identity, "hairSpecifics")
          THEN {<<"hairLength", identity.hairSpecifics.hairLength>>,
                <<"hairWave", identity.hairSpecifics.hairWave>>}
          ELSE {})

\* the drift negatives of the non-empty attributes other than the hair part,
\* and the user-authored negatives
NegativesButPart(identity) ==
  UNION {{n.items[i].s : i \in 1..Len(n.items)} :
           n \in {m \in {inferNegatives(p[1], p[2]) :
                           p \in {q \in AttributesButPart(identity) : q[2] # ""}} :
                    m.t = "array"}}
    \cup {UserAuthored(identity)[i] : i \in 1..Len(UserAuthored(identity))}

PairReturned == Did("buildLockedIdentityPromptPair") /\ callOut.completion = "return"

\* C21: for an identity whose hairSpecifics.hairPart is "none" or empty,
\* neither the positive phrases of buildLockedIdentityPromptPair nor the
\* clause of buildIdentityLock holds a "parted <part>" clause (the hair
\* phrase is "<words> hair" and nothing more), and every negative of the
\* pair comes from another attribute or from the user: the hair part's
\* drift negatives are not added.
C21_NoPartedClauseForNoneOrEmptyPart ==
  HairPartAbsent(input.identity) =>
    /\ Did("buildIdentityLock") => ~Includes(callOut.value, " parted")
    /\ PairReturned =>
         /\ \A i \in 1..Len(callOut.value.positive) :
              ~Includes(callOut.value.positive[i], " parted")
         /\ Len(HairWords(input.identity)) > 0 =>
              \E i \in 1..Len(callOut.value.positive) :
                 callOut.value.positive[i] =
                   JoinStrings(HairWords(input.identity), " ") \o " hair"
         /\ \A i \in 1..Len(callOut.value.negative) :
              callOut.value.negative[i] \in NegativesButPart(input.identity)

C21_Witness ==
  /\ PairReturned
  /\ Has(input.identity, "hairSpecifics")
  /\ input.identity.hairSpecifics.hairPart = "none"
  /\ Len(HairWords(input.identity)) > 0
  /\ Len(callOut.value.negative) > 0


-----------------------------------------------------------------------------
(* utils/colorUtils.ts as a state machine: one call on one color string *)

HexBodies ==
  {"FF0000", "CC0000", "0000FF", "008000", "FFD700", "8B4513", "000000", "FFFFFF",
   "1a1a1a", "808080", "FFB6C1", "F00", "00F", "abc", "fff",
   "", "F", "FF", "FFFF", "FFFFF", "FFFFFFF", "FF0000FF",
   "invalid", "GGG", "GGGGGG", "zzzzzz", "1g2h3i", "12345z", "z12345", "ff00zz",
   "f0g", "0x0x0x", "-1-2-3", " 1 2 3", "+f+f+f", "0x1", "#fff"}

HexInputs == HexBodies \cup {"#" \o body : body \in HexBodies}

ColorInit ==
  /\ input \in [hex : HexInputs]
  /\ callFn = ""
  /\ callPc = "ready"
  /\ callOut = NotCalled
  /\ NormIdle
  /\ RemoteIdle
  /\ DriftIdle

HexToSimpleColorName ==
  Called("hexToSimpleColorName", Return(hexToSimpleColorName(input.hex)))

GetColorModifier == Called("getColorModifier", Return(getColorModifier(input.hex)))

FormatColorWithModifier ==
  Called("formatColorWithModifier", Return(formatColorWithModifier(input.hex)))

ColorNext ==
  \/ HexToSimpleColorName
  \/ GetColorModifier
  \/ FormatColorWithModifier

SpecColor == ColorInit /\ [][ColorNext]_vars

-----------------------------------------------------------------------------
(* Claims about the color names *)

RECURSIVE AllHexDigits(_)
AllHexDigits(s) ==
  Len(s) = 0 \/ (IsHexDigit(CharAt(s, 1)) /\ AllHexDigits(Tail(s)))

WithoutHash(hex) == IF Len(hex) > 0 /\ CharAt(hex, 1) = "#" THEN Tail(hex) ELSE hex

\* exactly 3 or exactly 6 hexadecimal digits after an optional leading #
IsValidHex(hex) == Len(WithoutHash(hex)) \in {3, 6} /\ AllHexDigits(WithoutHash(hex))

PaletteNames == {BASE_COLORS[i][1] : i \in 1..Len(BASE_COLORS)}

\* C22: hexToSimpleColorName returns "unknown" for every input that is not
\* exactly 3 or exactly 6 hexadecimal digits after an optional leading #,
\* and the name of a palette color only for a valid input.
C22_UnknownUnlessValidHex ==
  Did("hexToSimpleColorName") =>
    /\ ~IsValidHex(input.hex) => callOut.value = "unknown"
    /\ IsValidHex(input.hex) => callOut.value \in PaletteNames


-----------------------------------------------------------------------------
(* Claims about the optional parts of a normalized identity *)

NormReturned == normPc = "done" /\ normOut.completion = "return"

SomeFieldFilled(r) == \E k \in DOMAIN r : r[k] # ""

\* the optional parts of a normalized identity hold data
OptionalPartsFilled(identity) ==
  /\ Has(identity, "faceGeometry") => SomeFieldFilled(identity.faceGeometry)
  /\ Has(identity, "hairSpecifics") => SomeFieldFilled(identity.hairSpecifics)
  /\ Has(identity, "confidence") => identity.confidence.overall > 0

\* C23: in every output of normalizeMetadata, subject.identity is present
\* only if its primaryColor.description or its fixedSeed is non-empty;
\* within a present identity, faceGeometry and hairSpecifics are present
\* only if at least one of their fields is non-empty, and confidence is
\* present only if its clamped overall is greater than 0.
C23_OptionalPartsOnlyWithData ==
  (NormReturned /\ Has(normOut.value.subject, "identity")) =>
    /\ \/ normOut.value.subject.identity.primaryColor.description # ""
       \/ normOut.value.subject.identity.fixedSeed # ""
    /\ OptionalPartsFilled(normOut.value.subject.identity)

\* the raw identity handed over inside raw.subject
RawIdentityPart(k) == Get(Get(Get(raw, "subject"), "identity"), k)

\* an identity that keeps its hair but loses a face geometry and a
\* confidence object that hold no data
C23_Witness ==
  /\ NormReturned
  /\ Has(normOut.value.subject, "identity")
  /\ Has(normOut.value.subject.identity, "hairSpecifics")
  /\ \/ /\ RawIdentityPart("faceGeometry").t = "object"
        /\ ~Has(normOut.value.subject.identity, "faceGeometry")
     \/ /\ RawIdentityPart("confidence").t = "object"
        /\ ~Has(normOut.value.subject.identity, "confidence")


\* C24: in buildLockedIdentityPromptPair, for every locked identity whose
\* hair length, hair wave and accent-color description are all empty and
\* whose texture is non-empty, the texture is one of the positive phrases,
\* whether or not a hairSpecifics block is present.
C24_TextureStandsInForHair ==
  (PairReturned /\ Len(HairWords(input.identity)) = 0 /\ input.identity.texture # "") =>
    \E i \in 1..Len(callOut.value.positive) :
       callOut.value.positive[i] = input.identity.texture


-----------------------------------------------------------------------------
(* Claims about the correction loop of parseAndValidateJson *)

\* this step calls correctMalformedJson
CorrectionRequested ==
  an'.pc = "correcting" /\ (an.pc # "correcting" \/ an'.attempt > an.attempt)

\* this step parses the text of the last correction the loop allows
LastTextParsed == an.pc = "correcting" /\ an.attempt < an'.attempt /\ an'.attempt = MAX_CORRECTIONS

\* C25: parseAndValidateJson asks the model to repair the text at most
\* maxCorrections (2) times; it asks only after the current text failed to
\* parse, never after a successful parse; and when the initial text and both
\* corrected texts fail to parse it rejects with the invalid-JSON error
\* without asking a third time.
C25_AtMostTwoCorrectionsOnlyAfterParseFailure ==
  [][ /\ CorrectionRequested =>
           /\ an'.attempt < MAX_CORRECTIONS
           /\ Throws(JSONParse(an'.currentText))
      /\ (LastTextParsed /\ Throws(JSONParse(an'.currentText))) =>
           /\ an'.pc = "rejected"
           /\ an'.result = Throw(INVALID_JSON_ERROR)
    ]_vars


-----------------------------------------------------------------------------
(* Claims about the order of the positive phrases and the negative list *)

\* "<v><suffix>", nothing for an empty v
Phrase(v, suffix) == IF v = "" THEN "" ELSE v \o suffix

FacePhrases(identity) ==
  IF Has(identity, "faceGeometry")
  THEN <<Phrase(identity.faceGeometry.faceShape, " face"),
         Phrase(identity.faceGeometry.eyeShape, " eyes"),
         Phrase(identity.faceGeometry.browStyle, " brows"),
         Phrase(identity.faceGeometry.noseShape, " nose"),
         Phrase(identity.faceGeometry.lipShape, " lips")>>
  ELSE <<>>

HairPhrase(identity) ==
  IF Len(HairWords(identity)) = 0 THEN ""
  ELSE JoinStrings(HairWords(identity), " ") \o " hair"
         \o (IF Has(identity, "hairSpecifics") /\ ~HairPartAbsent(identity)
             THEN " parted " \o identity.hairSpecifics.hairPart ELSE "")

\* the phrases in the stated order, those of empty attributes left out
OrderedPhrases(identity) ==
  FilterBoolean(
    <<identity.species, identity.estimatedAge>>
      \o FacePhrases(identity)
      \o <<Phrase(identity.primaryColor.description, " eyes"),
           Phrase(identity.secondaryColor.description, " skin"),
           HairPhrase(identity),
           Phrase(identity.structure, " build"),
           IF Has(identity, "hairSpecifics") THEN "" ELSE identity.texture,
           JoinStrings(Slice(identity.distinguishingFeatures, 3), ", "),
           IF identity.fixedSeed = "" THEN "" ELSE "\"" \o identity.fixedSeed \o "\"">>)

\* C26: buildLockedIdentityPromptPair emits its positive phrases in the
\* order species, estimatedAge, face geometry (face, eyes, brows, nose,
\* lips), "<primary> eyes", "<secondary> skin", the hair phrase,
\* "<structure> build", texture (only without hairSpecifics), the first 3
\* distinguishing features joined by commas as one phrase, the quoted
\* fixedSeed; an empty attribute emits no phrase.
C26_PositivePhrasesInFixedOrder ==
  PairReturned => callOut.value.positive = OrderedPhrases(input.identity)

C26_Witness ==
  /\ PairReturned
  /\ Has(input.identity, "faceGeometry")
  /\ ~Has(input.identity, "hairSpecifics")
  /\ Len(callOut.value.positive) >= 10


\* <<category, value>> of the attributes that contribute negatives, in the
\* order of the walk; the value is "" where the attribute contributes nothing
WalkedAttributes(identity) ==
  (IF Has(identity, "faceGeometry")
   THEN <<<<"faceShape", identity.faceGeometry.faceShape>>,
          <<"eyeShape", identity.faceGeometry.eyeShape>>,
          <<"browStyle", identity.faceGeometry.browStyle>>,
          <<"noseShape", identity.faceGeometry.noseShape>>,
          <<"lipShape", identity.faceGeometry.lipShape>>>>
   ELSE <<>>)
    \o <<<<"eyeColor", identity.primaryColor.description>>,
         <<"skinTone", identity.secondaryColor.description>>>>
    \o (IF Has(identity, "hairSpecifics")
        THEN <<<<"hairLength", identity.hairSpecifics.hairLength>>,
               <<"hairWave", identity.hairSpecifics.hairWave>>>>
        ELSE <<>>)
    \o <<<<"hairColor", identity.accentColor.description>>>>
    \o (IF /\ Has(identity, "hairSpecifics")
           /\ ~HairPartAbsent(identity)
           /\ Len(HairWords(identity)) > 0
        THEN <<<<"hairPart", identity.hairSpecifics.hairPart>>>> ELSE <<>>)
    \o <<<<"structure", identity.structure>>,
         <<"texture", IF Has(identity, "hairSpecifics") THEN "" ELSE identity.texture>>>>

Contributes(attribute) == attribute[2] # ""

\* the drift negatives in the order of the walk, then the user-authored ones
WalkNegatives(identity) ==
  Flatten([i \in 1..Len(SelectSeq(WalkedAttributes(identity), Contributes)) |->
             StringsOf(inferNegatives(
               SelectSeq(WalkedAttributes(identity), Contributes)[i][1],
               SelectSeq(WalkedAttributes(identity), Contributes)[i][2]))])
    \o UserAuthored(identity)

FirstIndex(seq, x) ==
  CHOOSE i \in 1..Len(seq) : seq[i] = x /\ \A j \in 1..(i - 1) : seq[j] # x

\* list holds every non-empty term of walk once, in the order of the first
\* occurrences
FirstOccurrencesOf(list, walk) ==
  /\ NoDuplicates(list)
  /\ \A i \in 1..Len(list) : list[i] # ""
  /\ {list[i] : i \in 1..Len(list)} = {walk[i] : i \in 1..Len(walk)} \ {""}
  /\ \A i, j \in 1..Len(list) :
       i < j => FirstIndex(walk, list[i]) < FirstIndex(walk, list[j])

\* C27: the negative list returned by buildLockedIdentityPromptPair holds
\* no duplicate and no empty string and keeps each term at the position of
\* its first occurrence in the walk; species, estimatedAge,
\* distinguishingFeatures and fixedSeed contribute nothing, and the
\* user-authored identityNegatives come after all drift negatives, unmodified.
C27_NegativesDedupedInWalkOrder ==
  PairReturned => FirstOccurrencesOf(callOut.value.negative, WalkNegatives(input.identity))

C27_Witness ==
  /\ PairReturned
  /\ \E i \in 1..Len(UserAuthored(input.identity)) : UserAuthored(input.identity)[i] = ""
  /\ Len(callOut.value.negative) > 6
  /\ Len(callOut.value.negative) < Len(WalkNegatives(input.identity)) - 2


-----------------------------------------------------------------------------
(* Claims about the place of the identity lock in the universal prompt *)

\* the subject section with the lock right after archetype and description
SubjectWithLockSecond(subject) ==
  JoinStrings(
    FilterBoolean(<<subject.archetype, subject.description,
                    buildIdentityLock(subject.identity),
                    subject.expression, subject.pose, subject.attire>>), ", ")

\* C28: in generateUniversalPrompt with the subject section enabled and an
\* identity present, the identity-lock clause comes right after the
\* archetype and description entries, before expression, pose and attire.
C28_LockAfterArchetypeAndDescription ==
  (/\ Did("generateUniversalPrompt")
   /\ callOut.completion = "return"
   /\ Flag(universalSectionsOf(input.options), "subject")
   /\ Has(input.data.subject, "identity")) =>
    Includes(callOut.value, SubjectWithLockSecond(input.data.subject))


-----------------------------------------------------------------------------
(* normalizeConfidence as a state machine: one call on one raw value *)

CONFIDENCE_FIELDS ==
  {"overall", "primaryColor", "secondaryColor", "accentColor", "faceGeometry",
   "hairSpecifics"}

NumberScores ==
  {Num(0), Num(1), Num(5), Num(10), Num(11), Num(25), Num(-1), Num(-20)}

\* raw scores that are not numbers but read as one, each with the number (in
\* tenths) it reads as
NumericScores ==
  {<<Str("0"), 0>>, <<Str("0.7"), 7>>, <<Str("1"), 10>>, <<Str("1.5"), 15>>,
   <<Str("-0.3"), -3>>, <<Str(" +0.4"), 4>>, <<Str(".5"), 5>>,
   <<Str("0.7abc"), 7>>, <<Str("90%"), 900>>, <<Arr(<<Num(5)>>), 5>>}

\* raw scores that do not read as a number
OtherScores ==
  {Null, Undefined, Bool(TRUE), Bool(FALSE), Str(""), Str("high"), Str("abc1"),
   Str("None"), Str("-"), Str("."), Arr(<<>>), Arr(<<Str("x"), Num(5)>>), Obj(NoFields)}

InfiniteScores == {Str("Infinity"), Str("-Infinity"), Str("+Infinity")}

Scores ==
  NumberScores \cup {p[1] : p \in NumericScores} \cup OtherScores \cup InfiniteScores

SampleScores ==
  Obj([overall |-> Num(9), primaryColor |-> Num(10), secondaryColor |-> Num(0),
       accentColor |-> Num(5), faceGeometry |-> Num(3), hairSpecifics |-> Num(7)])

ConfidenceInputs ==
  {With(SampleScores, k, v) : k \in CONFIDENCE_FIELDS, v \in Scores}
    \cup {Without(SampleScores, k) : k \in CONFIDENCE_FIELDS}
    \cup {SampleScores, Obj(NoFields), Null, Undefined, Num(9), Str("0.9"), Bool(TRUE),
          Arr(<<Num(9)>>)}

ConfidenceInit ==
  /\ input \in [conf : ConfidenceInputs]
  /\ callFn = ""
  /\ callPc = "ready"
  /\ callOut = NotCalled
  /\ NormIdle
  /\ RemoteIdle
  /\ DriftIdle

NormalizeConfidence ==
  Called("normalizeConfidence", Return(normalizeConfidence(input.conf)))

ConfidenceNext == NormalizeConfidence

SpecConfidence == ConfidenceInit /\ [][ConfidenceNext]_vars

-----------------------------------------------------------------------------
(* Claims about normalizeConfidence *)

\* the number in [0, 1] (in tenths) nearest to x
IntoUnitRange(x) == IF x < 0 THEN 0 ELSE IF x > 10 THEN 10 ELSE x

\* the score a raw value stands for: 0 for one that does not read as a number
ScoreOf(v) ==
  IF v.t = "number" THEN IntoUnitRange(v.n)
  ELSE IF \E p \in NumericScores : p[1] = v
  THEN IntoUnitRange((CHOOSE p \in NumericScores : p[1] = v)[2])
  ELSE IF v = Str("Infinity") \/ v = Str("+Infinity") THEN 10
  ELSE 0

ExpectedScores(conf) == [k \in CONFIDENCE_FIELDS |-> ScoreOf(Get(conf, k))]

-----------------------------------------------------------------------------
(* Claims about the word-level stage of findBestMatch *)

\* findBestMatch with the word-level stage removed
MatchWithoutWords(normalized, map) ==
  IF Truthy(GetProperty(map, normalized)) THEN GetProperty(map, normalized)
  ELSE PartialMatch(normalized, map.entries)

\* inferNegatives over findBestMatch without the word-level stage
NegativesWithoutWords(cat, v) ==
  IF v = "" \/ trim(v) = "" THEN Triple(DEFAULT_NEGATIVES)
  ELSE IF ~Truthy(MapOf(cat)) THEN Triple(DEFAULT_NEGATIVES)
  ELSE IF Truthy(MatchWithoutWords(trim(ToLowerCase(v)), MapOf(cat)))
  THEN MatchWithoutWords(trim(ToLowerCase(v)), MapOf(cat))
  ELSE Triple(DEFAULT_NEGATIVES)

SomeWordIsKey(table, n) == \E j \in 1..Len(split(n)) : IsKeyWord(table, split(n)[j])

SomeKeyPartlyMatches(table, n) ==
  \E i \in 1..Len(table) : Includes(n, KeyAt(table, i)) \/ Includes(KeyAt(table, i), n)

\* C30: the word-level stage of findBestMatch never decides a result: for
\* every drift table and every value, whenever a word of the value longer
\* than 2 characters equals a key of the table the partial-match stage has
\* already returned, so inferNegatives gives the result of the algorithm
\* without the word-level stage.
C30_WordStageNeverDecides ==
  (driftPc = "done" /\ category \in RecognizedCategories) =>
    /\ SomeWordIsKey(TableOf(category), trim(ToLowerCase(value))) =>
         SomeKeyPartlyMatches(TableOf(category), trim(ToLowerCase(value)))
    /\ driftOut = Return(NegativesWithoutWords(category, value))

=============================================================================
